---- MODULE Spec2Model ----
(***************************************************************************)
(* A byte-level model of fix::Controller (src/fix_controller.cc and        *)
(* include/fix_controller.h of kingkybel/FixDecoder).                      *)
(*                                                                         *)
(* A std::string is a sequence of byte values (0..255); positions are      *)
(* 0-based as in the C++ code, npos is -1.  A std::uint32_t is a pair      *)
(* <<hi, lo>> of 16-bit limbs, so that the counters keep their 32-bit      *)
(* width: value = hi * 65536 + lo.                                         *)
(***************************************************************************)
EXTENDS Integers, Sequences, FiniteSets, TLC

\* ------------------------------------------------------------------ bytes

kSoh == 1

npos == -1

\* Character literals of the source, as byte values.
ChPipe  == 124
ChEq    == 61
ChMinus == 45
Ch0     == 48
Ch9     == 57

\* String literals of the source, as byte sequences.
StrBegin    == <<56, 61>>          \* "8="
StrBodyLen  == <<57, 61>>          \* "9="
StrCheckSum == <<49, 48, 61>>      \* "10="
StrMsgType  == <<51, 53, 61>>      \* "35="
StrSeqNum   == <<51, 52, 61>>      \* "34="
StrSender   == <<52, 57, 61>>      \* "49="
StrTarget   == <<53, 54, 61>>      \* "56="
StrSendTime == <<53, 50, 61>>      \* "52="
StrTrailer  == <<1, 49, 48, 61>>   \* std::string(1, kSoh) + "10="

\* s[pos] of a std::string (0-based).
At(s, pos) == s[pos + 1]

\* std::string::substr(pos, n): clipped at the end of s.
Substr(s, pos, n) ==
    SubSeq(s, pos + 1, IF pos + n > Len(s) THEN Len(s) ELSE pos + n)

\* std::string::erase(0, n)
Erase(s, n) == SubSeq(s, n + 1, Len(s))

MatchAt(s, pat, i) ==
    /\ i + Len(pat) <= Len(s)
    /\ \A k \in 1..Len(pat) : s[i + k] = pat[k]

\* std::string::find(pat, pos): the first i >= pos where pat occurs, or npos.
Find(s, pat, pos) ==
    LET range == pos..(Len(s) - Len(pat))
    IN  IF \E i \in range : MatchAt(s, pat, i)
        THEN CHOOSE i \in range :
                 MatchAt(s, pat, i) /\ \A j \in pos..(i - 1) : ~MatchAt(s, pat, j)
        ELSE npos

\* std::string::rfind(pat): the last i where pat occurs, or npos.
RFind(s, pat) ==
    LET range == 0..(Len(s) - Len(pat))
    IN  IF \E i \in range : MatchAt(s, pat, i)
        THEN CHOOSE i \in range :
                 MatchAt(s, pat, i)
                 /\ \A j \in (i + 1)..(Len(s) - Len(pat)) : ~MatchAt(s, pat, j)
        ELSE npos

\* std::isdigit in the "C" locale.
IsDigit(ch) == ch >= Ch0 /\ ch <= Ch9

\* ------------------------------------------------------- 32-bit unsigned

Limb == 65536

U32(n) == <<n \div Limb, n % Limb>>

U32Max == <<Limb - 1, Limb - 1>>

\* a + b on std::uint32_t (modulo 2^32).
U32Add(a, b) ==
    LET lo == a[2] + b[2]
        hi == a[1] + b[1] + (lo \div Limb)
    IN  <<hi % Limb, lo % Limb>>

U32Lt(a, b) == a[1] < b[1] \/ (a[1] = b[1] /\ a[2] < b[2])

U32Le(a, b) == a = b \/ U32Lt(a, b)

\* Quotient and remainder of a std::uint32_t by ten.
U32DivMod10(a) ==
    LET t == (a[1] % 10) * Limb + a[2]
    IN  [q |-> <<a[1] \div 10, t \div 10>>, r |-> t % 10]

RECURSIVE U32Digits(_)
U32Digits(a) ==
    LET dm == U32DivMod10(a)
    IN  IF dm.q = <<0, 0>> THEN <<Ch0 + dm.r>>
        ELSE Append(U32Digits(dm.q), Ch0 + dm.r)

\* toString(std::uint32_t): std::to_string, decimal without padding.
toString(value) == U32Digits(value)

RECURSIVE NatDigits(_)
NatDigits(n) ==
    IF n < 10 THEN <<Ch0 + n>> ELSE Append(NatDigits(n \div 10), Ch0 + (n % 10))

\* std::to_string of an int or a std::size_t.
IntToString(n) == IF n < 0 THEN <<ChMinus>> \o NatDigits(0 - n) ELSE NatDigits(n)

RECURSIVE ParseUintFrom(_, _, _)
\* std::from_chars into a std::uint32_t, digit by digit from position i with
\* the value acc read so far: ok only if every byte is a digit and the value
\* fits 32 bits.
ParseUintFrom(value, i, acc) ==
    IF i > Len(value) THEN [ok |-> TRUE, out |-> acc]
    ELSE IF ~IsDigit(value[i]) THEN [ok |-> FALSE, out |-> <<0, 0>>]
    ELSE LET lo == acc[2] * 10 + (value[i] - Ch0)
             hi == acc[1] * 10 + (lo \div Limb)
         IN  IF hi >= Limb THEN [ok |-> FALSE, out |-> <<0, 0>>]
             ELSE ParseUintFrom(value, i + 1, <<hi, lo % Limb>>)

\* parseUint(value, out): [ok |-> the bool returned, out |-> the value stored].
parseUint(value) ==
    IF Len(value) = 0 THEN [ok |-> FALSE, out |-> <<0, 0>>]
    ELSE ParseUintFrom(value, 1, <<0, 0>>)

IntMaxDiv10 == 214748364

RECURSIVE ParseIntFrom(_, _, _)
\* The digits of std::from_chars into an int, accumulated as a non-positive
\* number so that INT_MIN is representable.
ParseIntFrom(s, i, acc) ==
    IF i > Len(s) THEN [ok |-> TRUE, neg |-> acc]
    ELSE IF ~IsDigit(s[i]) THEN [ok |-> FALSE, neg |-> 0]
    ELSE LET d == s[i] - Ch0
         IN  IF acc < 0 - IntMaxDiv10 \/ (acc = 0 - IntMaxDiv10 /\ d > 8)
             THEN [ok |-> FALSE, neg |-> 0]
             ELSE ParseIntFrom(s, i + 1, acc * 10 - d)

\* std::from_chars(first, last, int) with the test of the call site: no error
\* and the whole range consumed.
ParseInt(s) ==
    LET minus == Len(s) > 0 /\ s[1] = ChMinus
        digits == IF minus THEN Tail(s) ELSE s
        r == ParseIntFrom(digits, 1, 0)
    IN  IF Len(digits) = 0 \/ ~r.ok THEN [ok |-> FALSE, value |-> 0]
        ELSE IF minus THEN [ok |-> TRUE, value |-> r.neg]
        ELSE IF r.neg = (0 - IntMaxDiv10) * 10 - 8 THEN [ok |-> FALSE, value |-> 0]
        ELSE [ok |-> TRUE, value |-> 0 - r.neg]

\* ------------------------------------------------------- message building

RECURSIVE SumBytes(_, _, _)
\* The sum of the bytes s[lo..hi], halving the range.
SumBytes(s, lo, hi) ==
    IF lo > hi THEN 0
    ELSE IF lo = hi THEN s[lo]
    ELSE LET mid == (lo + hi) \div 2
         IN  SumBytes(s, lo, mid) + SumBytes(s, mid + 1, hi)

\* The sum, modulo 256, of the first n bytes of s.
ByteSum(s, n) == SumBytes(s, 1, n) % 256

\* std::setw(3) << std::setfill('0') << checksum, for 0 <= checksum < 256.
Pad3(n) == <<Ch0 + (n \div 100), Ch0 + ((n \div 10) % 10), Ch0 + (n % 10)>>

toChecksum(message_without_checksum) ==
    Pad3(ByteSum(message_without_checksum, Len(message_without_checksum)))

RECURSIVE FieldBytes(_, _)
\* The loop over the caller's fields: tag '=' value SOH for each, in order.
FieldBytes(fields, i) ==
    IF i > Len(fields) THEN <<>>
    ELSE IntToString(fields[i][1]) \o <<ChEq>> \o fields[i][2] \o <<kSoh>>
         \o FieldBytes(fields, i + 1)

\* Controller::buildMessageWithSeqNum; ts is what utcTimestamp() returns.
buildMessageWithSeqNum(c, msg_type, fields, seq_num, ts) ==
    LET body == StrMsgType \o msg_type \o <<kSoh>>
                \o StrSeqNum \o toString(seq_num) \o <<kSoh>>
                \o StrSender \o c.sender_comp_id_ \o <<kSoh>>
                \o StrTarget \o c.target_comp_id_ \o <<kSoh>>
                \o StrSendTime \o ts \o <<kSoh>>
                \o FieldBytes(fields, 1)
        message == StrBegin \o c.begin_string_ \o <<kSoh>>
                   \o StrBodyLen \o IntToString(Len(body)) \o <<kSoh>>
                   \o body
    IN  message \o StrCheckSum \o toChecksum(message) \o <<kSoh>>

\* ------------------------------------------------------ inbound validation

\* Controller::normalize
normalize(message) ==
    [i \in 1..Len(message) |-> IF message[i] = ChPipe THEN kSoh ELSE message[i]]

\* Controller::validateChecksum
validateChecksum(normalized_message) ==
    LET trailer == RFind(normalized_message, StrTrailer)
    IN  IF trailer = npos \/ trailer + 8 # Len(normalized_message) THEN FALSE
        ELSE IF \E i \in (trailer + 4)..(trailer + 6) :
                    ~IsDigit(At(normalized_message, i)) THEN FALSE
        ELSE LET expected == (At(normalized_message, trailer + 4) - Ch0) * 100
                             + (At(normalized_message, trailer + 5) - Ch0) * 10
                             + (At(normalized_message, trailer + 6) - Ch0)
                 actual == ByteSum(normalized_message, trailer + 1)
             IN  actual = expected

\* Controller::validateBodyLength
validateBodyLength(normalized_message) ==
    LET begin_field_end == Find(normalized_message, <<kSoh>>, 0)
    IN  IF begin_field_end = npos THEN FALSE
        ELSE
        LET body_field_end == Find(normalized_message, <<kSoh>>, begin_field_end + 1)
        IN  IF body_field_end = npos THEN FALSE
            ELSE
            LET body_len_eq == Find(normalized_message, <<ChEq>>, begin_field_end + 1)
            IN  IF body_len_eq = npos \/ body_len_eq > body_field_end THEN FALSE
                ELSE IF Substr(normalized_message, begin_field_end + 1, 2) # StrBodyLen
                THEN FALSE
                ELSE
                LET expected_len ==
                        parseUint(Substr(normalized_message, body_len_eq + 1,
                                         body_field_end - body_len_eq - 1))
                    trailer == RFind(normalized_message, StrTrailer)
                IN  IF ~expected_len.ok THEN FALSE
                    ELSE IF trailer = npos \/ trailer < body_field_end THEN FALSE
                    ELSE U32(trailer - body_field_end) = expected_len.out

\* ParseErrorCode and ParseError{code, field}
ParseError(code, field) == [code |-> code, field |-> field]

RECURSIVE TokenizeFrom(_, _, _)
\* The first loop of Controller::parseMessage: the ordered fields, or the
\* first error.
TokenizeFrom(normalized_message, pos, ordered_fields) ==
    IF pos >= Len(normalized_message)
    THEN [ok |-> TRUE, ordered_fields |-> ordered_fields,
          error |-> ParseError("kNone", 0)]
    ELSE
    LET end == Find(normalized_message, <<kSoh>>, pos)
        eq  == Find(normalized_message, <<ChEq>>, pos)
    IN  IF end = npos
        THEN [ok |-> FALSE, ordered_fields |-> <<>>,
              error |-> ParseError("kMissingFieldTerminator", 0)]
        ELSE IF eq = npos \/ eq >= end
        THEN [ok |-> FALSE, ordered_fields |-> <<>>,
              error |-> ParseError("kMalformedTagValue", 0)]
        ELSE
        LET tag == ParseInt(Substr(normalized_message, pos, eq - pos))
        IN  IF ~tag.ok
            THEN [ok |-> FALSE, ordered_fields |-> <<>>,
                  error |-> ParseError("kTagNotNumeric", 0)]
            ELSE TokenizeFrom(normalized_message, end + 1,
                     Append(ordered_fields,
                            [tag |-> tag.value,
                             value |-> Substr(normalized_message, eq + 1, end - eq - 1)]))

RECURSIVE ScanFields(_, _, _)
\* The second loop of Controller::parseMessage over result.ordered_fields.
ScanFields(result, i, fields) ==
    IF i > Len(fields) THEN [ok |-> TRUE, result |-> result]
    ELSE IF fields[i].tag = 35
    THEN ScanFields([result EXCEPT !.msg_type = fields[i].value], i + 1, fields)
    ELSE IF fields[i].tag = 34
    THEN LET n == parseUint(fields[i].value)
         IN  IF ~n.ok THEN [ok |-> FALSE, result |-> result]
             ELSE ScanFields([result EXCEPT !.sequence_number = n.out,
                                            !.has_sequence_number = TRUE],
                             i + 1, fields)
    ELSE ScanFields(result, i + 1, fields)

\* A default-constructed ParsedMessage.
EmptyParsedMessage ==
    [ordered_fields |-> <<>>, msg_type |-> <<>>, sequence_number |-> <<0, 0>>,
     has_sequence_number |-> FALSE]

\* Controller::parseMessage: [ok |-> the bool returned, parsed, error].
parseMessage(normalized_message) ==
    LET tok == TokenizeFrom(normalized_message, 0, <<>>)
    IN  IF ~tok.ok
        THEN [ok |-> FALSE, parsed |-> EmptyParsedMessage, error |-> tok.error]
        ELSE
        LET scan == ScanFields([EmptyParsedMessage EXCEPT
                                   !.ordered_fields = tok.ordered_fields],
                               1, tok.ordered_fields)
        IN  IF ~scan.ok
            THEN [ok |-> FALSE, parsed |-> EmptyParsedMessage,
                  error |-> ParseError("kInvalidMsgSeqNum", 34)]
            ELSE IF scan.result.msg_type = <<>>
            THEN [ok |-> FALSE, parsed |-> EmptyParsedMessage,
                  error |-> ParseError("kMissingMsgType", 35)]
            ELSE IF ~scan.result.has_sequence_number
            THEN [ok |-> FALSE, parsed |-> EmptyParsedMessage,
                  error |-> ParseError("kMissingMsgSeqNum", 34)]
            ELSE [ok |-> TRUE, parsed |-> scan.result,
                  error |-> ParseError("kNone", 0)]

\* The texts of Controller::parseErrorText.
TextMissingTerminator ==   \* "Missing SOH-delimited field terminator"
    <<77, 105, 115, 115, 105, 110, 103, 32, 83, 79, 72, 45, 100, 101, 108, 105,
      109, 105, 116, 101, 100, 32, 102, 105, 101, 108, 100, 32, 116, 101, 114,
      109, 105, 110, 97, 116, 111, 114>>
TextMalformedTagValue ==   \* "Malformed tag=value field"
    <<77, 97, 108, 102, 111, 114, 109, 101, 100, 32, 116, 97, 103, 61, 118, 97,
      108, 117, 101, 32, 102, 105, 101, 108, 100>>
TextTagNotNumeric ==       \* "Tag is not numeric"
    <<84, 97, 103, 32, 105, 115, 32, 110, 111, 116, 32, 110, 117, 109, 101, 114,
      105, 99>>
TextInvalidMsgSeqNum ==    \* "Invalid MsgSeqNum"
    <<73, 110, 118, 97, 108, 105, 100, 32, 77, 115, 103, 83, 101, 113, 78, 117,
      109>>
TextMissingMsgType ==      \* "Missing MsgType"
    <<77, 105, 115, 115, 105, 110, 103, 32, 77, 115, 103, 84, 121, 112, 101>>
TextMissingMsgSeqNum ==    \* "Missing MsgSeqNum"
    <<77, 105, 115, 115, 105, 110, 103, 32, 77, 115, 103, 83, 101, 113, 78, 117,
      109>>
TextMalformedMessage ==    \* "Malformed FIX message"
    <<77, 97, 108, 102, 111, 114, 109, 101, 100, 32, 70, 73, 88, 32, 109, 101,
      115, 115, 97, 103, 101>>
TextTagOpen ==             \* " (tag "
    <<32, 40, 116, 97, 103, 32>>
TextTagClose ==            \* ")"
    <<41>>

\* Controller::parseErrorText
parseErrorText(error) ==
    LET base == CASE error.code = "kMissingFieldTerminator" -> TextMissingTerminator
                  [] error.code = "kMalformedTagValue" -> TextMalformedTagValue
                  [] error.code = "kTagNotNumeric" -> TextTagNotNumeric
                  [] error.code = "kInvalidMsgSeqNum" -> TextInvalidMsgSeqNum
                  [] error.code = "kMissingMsgType" -> TextMissingMsgType
                  [] error.code = "kMissingMsgSeqNum" -> TextMissingMsgSeqNum
                  [] OTHER -> TextMalformedMessage
    IN  IF error.field > 0
        THEN base \o TextTagOpen \o IntToString(error.field) \o TextTagClose
        ELSE base

RECURSIVE FieldValueFrom(_, _, _)
FieldValueFrom(ordered_fields, tag, i) ==
    IF i > Len(ordered_fields) THEN <<>>
    ELSE IF ordered_fields[i].tag = tag THEN ordered_fields[i].value
    ELSE FieldValueFrom(ordered_fields, tag, i + 1)

\* Controller::fieldValue: the value of the first field with that tag, or "".
fieldValue(parsed, tag) == FieldValueFrom(parsed.ordered_fields, tag, 1)

\* ------------------------------------------------------------ Controller

\* MsgType values and texts used by the controller, as byte sequences.
MsgLogon       == <<65>>   \* "A"
MsgHeartbeat   == <<48>>   \* "0"
MsgTestRequest == <<49>>   \* "1"
MsgResendReq   == <<50>>   \* "2"
MsgReject      == <<51>>   \* "3"
MsgSeqReset    == <<52>>   \* "4"
MsgLogout      == <<53>>   \* "5"
StrY           == <<89>>   \* "Y"
TextInvalidEnvelope ==     \* "Invalid BodyLength or CheckSum"
    <<73, 110, 118, 97, 108, 105, 100, 32, 66, 111, 100, 121, 76, 101, 110, 103,
      116, 104, 32, 111, 114, 32, 67, 104, 101, 99, 107, 83, 117, 109>>
TextCompIdMismatch ==      \* "CompID mismatch"
    <<67, 111, 109, 112, 73, 68, 32, 109, 105, 115, 109, 97, 116, 99, 104>>
TextSeqTooLow ==           \* "MsgSeqNum too low"
    <<77, 115, 103, 83, 101, 113, 78, 117, 109, 32, 116, 111, 111, 32, 108, 111,
      119>>
TextExpectedLogon ==       \* "Expected Logon"
    <<69, 120, 112, 101, 99, 116, 101, 100, 32, 76, 111, 103, 111, 110>>
TextLogoutAck ==           \* "Logout Ack"
    <<76, 111, 103, 111, 117, 116, 32, 65, 99, 107>>
DefaultBeginString ==      \* "FIX.4.4"
    <<70, 73, 88, 46, 52, 46, 52>>
DefaultHeartbeatInterval == 30

\* Controller::Controller with the member initialisers of the class.
Controller(sender_comp_id, target_comp_id, role, begin_string, heartbeat_interval) ==
    [sender_comp_id_             |-> sender_comp_id,
     target_comp_id_             |-> target_comp_id,
     role_                       |-> role,
     begin_string_               |-> begin_string,
     heartbeat_interval_seconds_ |-> heartbeat_interval,
     state_                      |-> "kDisconnected",
     expected_incoming_seq_num_  |-> U32(1),
     next_outgoing_seq_num_      |-> U32(1),
     logon_sent_                 |-> FALSE,
     logon_received_             |-> FALSE,
     stream_buffer_              |-> <<>>]

\* Every operation below returns the controller after the call (c), what the
\* call returns, and log: one entry per buildMessage the call made, with the
\* counter before and after it.

\* A variant that passes ++next_outgoing_seq_num_ instead.
buildMessage_preIncrement(c, msg_type, fields, ts) ==
    LET seq_num == c.next_outgoing_seq_num_
        after   == U32Add(seq_num, U32(1))
        message == buildMessageWithSeqNum(c, msg_type, fields, after, ts)
    IN  [c       |-> [c EXCEPT !.next_outgoing_seq_num_ = after],
         message |-> message,
         log     |-> <<[before |-> seq_num, message |-> message, after |-> after]>>]

\* Controller::buildMessage: next_outgoing_seq_num_++ is the seq_num argument.
buildMessage(c, msg_type, fields, ts) ==
    LET seq_num == c.next_outgoing_seq_num_
        after   == U32Add(seq_num, U32(1))
        message == buildMessageWithSeqNum(c, msg_type, fields, seq_num, ts)
    IN  [c       |-> [c EXCEPT !.next_outgoing_seq_num_ = after],
         message |-> message,
         log     |-> <<[before |-> seq_num, message |-> message, after |-> after]>>]

\* Controller::buildLogon
buildLogon(c, reset_seq_num, ts) ==
    LET fields == <<<<98, <<Ch0>>>>,
                    <<108, IntToString(c.heartbeat_interval_seconds_)>>>>
                  \o (IF reset_seq_num THEN <<<<141, StrY>>>> ELSE <<>>)
        c1 == IF reset_seq_num
              THEN [c EXCEPT !.expected_incoming_seq_num_ = U32(1),
                             !.next_outgoing_seq_num_ = U32(1)]
              ELSE c
        c2 == [c1 EXCEPT !.logon_sent_ = TRUE, !.state_ = "kAwaitingLogon"]
    IN  buildMessage(c2, MsgLogon, fields, ts)

\* Controller::buildHeartbeat
buildHeartbeat(c, test_req_id, ts) ==
    buildMessage(c, MsgHeartbeat,
                 IF test_req_id # <<>> THEN <<<<112, test_req_id>>>> ELSE <<>>, ts)

\* Controller::buildTestRequest
buildTestRequest(c, test_req_id, ts) ==
    buildMessage(c, MsgTestRequest, <<<<112, test_req_id>>>>, ts)

\* Controller::buildLogout
buildLogout(c, text, ts) ==
    buildMessage([c EXCEPT !.state_ = "kLogoutSent"], MsgLogout,
                 IF text # <<>> THEN <<<<58, text>>>> ELSE <<>>, ts)

\* Controller::buildApplicationMessage
buildApplicationMessage(c, msg_type, fields, ts) ==
    buildMessage(c, msg_type, fields, ts)

\* Controller::buildResendRequest
buildResendRequest(c, begin_seq_no, end_seq_no, ts) ==
    buildMessage(c, MsgResendReq,
                 <<<<7, toString(begin_seq_no)>>, <<16, toString(end_seq_no)>>>>, ts)

\* Controller::skipOutboundSequence
skipOutboundSequence(c, delta) ==
    [c EXCEPT !.next_outgoing_seq_num_ = U32Add(c.next_outgoing_seq_num_, delta)]

\* An Action with one event and the outbound message of one build (if any).
Action(disposition, events, outbound_messages) ==
    [disposition |-> disposition, outbound_messages |-> outbound_messages,
     events |-> events]

\* A return of onMessage: the controller left behind, the Action, the builds.
Returned(c, disposition, events) ==
    [c |-> c, action |-> Action(disposition, events, <<>>), log |-> <<>>]

ReturnedWith(built, state, disposition, events) ==
    [c      |-> [built.c EXCEPT !.state_ = state],
     action |-> Action(disposition, events, <<built.message>>),
     log    |-> built.log]

\* The branches of Controller::onMessage, one operator per return statement.

\* A variant that ends the session on a garbled frame.
onGarbled_terminating(c, text, ts) ==
    LET built == buildMessage(c, MsgReject, <<<<58, text>>>>, ts)
    IN  ReturnedWith(built, "kTerminated", "kGarbled", <<"garbled_message">>)

\* A variant that reports every garbled frame as an envelope failure.
onGarbled_sameText(c, text, ts) ==
    LET built == buildMessage(c, MsgReject, <<<<58, TextInvalidEnvelope>>>>, ts)
    IN  ReturnedWith(built, built.c.state_, "kGarbled", <<"garbled_message">>)

\* Envelope or parse failure: a Reject with the text in tag 58.
onGarbled(c, text, ts) ==
    LET built == buildMessage(c, MsgReject, <<<<58, text>>>>, ts)
    IN  ReturnedWith(built, built.c.state_, "kGarbled", <<"garbled_message">>)

\* A variant that does not end the session.
onCompIdMismatch_continuing(c, ts) ==
    LET built == buildLogout(c, TextCompIdMismatch, ts)
    IN  ReturnedWith(built, c.state_, "kGarbled", <<"comp_id_mismatch">>)

\* sender != target_comp_id_ || target != sender_comp_id_
onCompIdMismatch(c, ts) ==
    ReturnedWith(buildLogout(c, TextCompIdMismatch, ts), "kTerminated", "kGarbled",
                 <<"comp_id_mismatch">>)

\* A variant that counts the early frame as received.
onSequenceGap_advancing(c, ts) ==
    LET built == buildResendRequest(c, c.expected_incoming_seq_num_, U32(0), ts)
    IN  ReturnedWith([built EXCEPT !.c.expected_incoming_seq_num_ =
                          U32Add(c.expected_incoming_seq_num_, U32(1))],
                     built.c.state_, "kOutOfSync", <<"sequence_gap">>)

\* A variant with the arguments of buildResendRequest exchanged.
onSequenceGap_swapped(c, ts) ==
    LET built == buildResendRequest(c, U32(0), c.expected_incoming_seq_num_, ts)
    IN  ReturnedWith(built, built.c.state_, "kOutOfSync", <<"sequence_gap">>)

\* parsed.sequence_number > expected_incoming_seq_num_
onSequenceGap_terminating(c, ts) ==
    LET built == buildResendRequest(c, c.expected_incoming_seq_num_, U32(0), ts)
    IN  ReturnedWith(built, "kTerminated", "kOutOfSync", <<"sequence_gap">>)

onSequenceGap(c, ts) ==
    LET built == buildResendRequest(c, c.expected_incoming_seq_num_, U32(0), ts)
    IN  ReturnedWith(built, built.c.state_, "kOutOfSync", <<"sequence_gap">>)

\* A variant that asks for a resend instead of logging out.
onSequenceTooLow_resending(c, ts) ==
    LET built == buildResendRequest(c, c.expected_incoming_seq_num_, U32(0), ts)
    IN  ReturnedWith(built, "kTerminated", "kOutOfSync", <<"sequence_too_low">>)

\* parsed.sequence_number < expected_incoming_seq_num_
onSequenceTooLow(c, ts) ==
    ReturnedWith(buildLogout(c, TextSeqTooLow, ts), "kTerminated", "kOutOfSync",
                 <<"sequence_too_low">>)

\* A variant without the increment.
acceptInOrder_skipped(c) == c

\* A variant that counts the frame twice.
acceptInOrder_twice(c) ==
    [c EXCEPT !.expected_incoming_seq_num_ = U32Add(U32Add(@, U32(1)), U32(1))]

\* ++expected_incoming_seq_num_
acceptInOrder(c) ==
    [c EXCEPT !.expected_incoming_seq_num_ =
         U32Add(c.expected_incoming_seq_num_, U32(1))]

\* A variant in which the initiator, not the acceptor, answers a Logon.
onLogon_initiatorReplies(c, ts) ==
    LET c1 == [c EXCEPT !.logon_received_ = TRUE]
    IN  IF ~c1.logon_sent_ /\ c1.role_ = "kInitiator"
        THEN ReturnedWith(buildLogon(c1, FALSE, ts), "kEstablished", "kAccepted",
                          <<"logon">>)
        ELSE Returned([c1 EXCEPT !.state_ = "kEstablished"], "kAccepted",
                      <<"logon">>)

\* A variant in which the acceptor answers every Logon.
onLogon_alwaysReplying(c, ts) ==
    LET c1 == [c EXCEPT !.logon_received_ = TRUE]
    IN  IF c1.role_ = "kAcceptor"
        THEN ReturnedWith(buildLogon(c1, FALSE, ts), "kEstablished", "kAccepted",
                          <<"logon">>)
        ELSE Returned([c1 EXCEPT !.state_ = "kEstablished"], "kAccepted",
                      <<"logon">>)

\* parsed.msg_type == "A"
onLogon(c, ts) ==
    LET c1 == [c EXCEPT !.logon_received_ = TRUE]
    IN  IF ~c1.logon_sent_ /\ c1.role_ = "kAcceptor"
        THEN ReturnedWith(buildLogon(c1, FALSE, ts), "kEstablished", "kAccepted",
                          <<"logon">>)
        ELSE Returned([c1 EXCEPT !.state_ = "kEstablished"], "kAccepted",
                      <<"logon">>)

\* A variant that lets traffic through before the Logon.
onLogonRequired_accepting(c, ts) ==
    Returned(c, "kAccepted", <<"application_message">>)

\* !logon_received_ && parsed.msg_type != "5"
onLogonRequired(c, ts) ==
    ReturnedWith(buildLogout(c, TextExpectedLogon, ts), "kTerminated", "kOutOfSync",
                 <<"logon_required">>)

\* A variant that answers with a bare Heartbeat.
onTestRequest_notEchoing(c, parsed, ts) ==
    LET built == buildHeartbeat(c, <<>>, ts)
    IN  ReturnedWith(built, built.c.state_, "kAccepted", <<"test_request">>)

\* parsed.msg_type == "1"
onTestRequest(c, parsed, ts) ==
    LET built == buildHeartbeat(c, fieldValue(parsed, 112), ts)
    IN  ReturnedWith(built, built.c.state_, "kAccepted", <<"test_request">>)

\* A variant that acknowledges a Logout even in state LogoutSent.
onLogout_alwaysAcking(c, ts) ==
    ReturnedWith(buildLogout(c, TextLogoutAck, ts), "kTerminated", "kAccepted",
                 <<"logout">>)

\* A variant whose acknowledgement leaves next_outgoing_seq_num_ alone.
onLogout_notCounting(c, ts) ==
    IF c.state_ # "kLogoutSent"
    THEN ReturnedWith([buildLogout(c, TextLogoutAck, ts) EXCEPT
                          !.c.next_outgoing_seq_num_ = c.next_outgoing_seq_num_],
                      "kTerminated", "kAccepted", <<"logout">>)
    ELSE Returned([c EXCEPT !.state_ = "kTerminated"], "kAccepted", <<"logout">>)

\* parsed.msg_type == "5"
onLogout(c, ts) ==
    IF c.state_ # "kLogoutSent"
    THEN ReturnedWith(buildLogout(c, TextLogoutAck, ts), "kTerminated", "kAccepted",
                      <<"logout">>)
    ELSE Returned([c EXCEPT !.state_ = "kTerminated"], "kAccepted", <<"logout">>)

\* A variant without the test new_seq >= expected_incoming_seq_num_.
onSequenceReset_unchecked(c, parsed) ==
    LET new_seq == parseUint(fieldValue(parsed, 36))
    IN  IF new_seq.ok
        THEN Returned([c EXCEPT !.expected_incoming_seq_num_ = new_seq.out],
                      "kAccepted", <<"sequence_reset">>)
        ELSE Returned(c, "kAccepted", <<>>)

\* parsed.msg_type == "4"
onSequenceReset(c, parsed) ==
    LET new_seq == parseUint(fieldValue(parsed, 36))
    IN  IF new_seq.ok /\ U32Le(c.expected_incoming_seq_num_, new_seq.out)
        THEN Returned([c EXCEPT !.expected_incoming_seq_num_ = new_seq.out],
                      "kAccepted", <<"sequence_reset">>)
        ELSE Returned(c, "kAccepted", <<>>)

\* The dispatch on parsed.msg_type of Controller::onMessage, entered after the
\* in-order increment of expected_incoming_seq_num_ (c is the controller then).
onMessageDispatch(c, parsed, ts) ==
    IF parsed.msg_type = MsgLogon THEN onLogon(c, ts)
    ELSE IF ~c.logon_received_ /\ parsed.msg_type # MsgLogout
    THEN onLogonRequired(c, ts)
    ELSE IF parsed.msg_type = MsgTestRequest THEN onTestRequest(c, parsed, ts)
    ELSE IF parsed.msg_type = MsgLogout THEN onLogout(c, ts)
    ELSE IF parsed.msg_type = MsgResendReq
    THEN Returned(c, "kAccepted", <<"resend_request">>)
    ELSE IF parsed.msg_type = MsgSeqReset THEN onSequenceReset(c, parsed)
    ELSE IF parsed.msg_type = MsgHeartbeat
    THEN Returned(c, "kAccepted", <<"heartbeat">>)
    ELSE Returned(c, "kAccepted", <<"application_message">>)

\* A variant of onMessageOf, below, that lets a SequenceReset through before
\* it looks at the sequence number.
onMessageOf_resetFirst(c, received, ts) ==
        IF ~received.envelope
        THEN onGarbled(c, TextInvalidEnvelope, ts)
        ELSE
        LET p == received.parse
        IN  IF ~p.ok THEN onGarbled(c, parseErrorText(p.error), ts)
            ELSE
            LET parsed == p.parsed
                sender == fieldValue(parsed, 49)
                target == fieldValue(parsed, 56)
            IN  IF sender # c.target_comp_id_ \/ target # c.sender_comp_id_
                THEN onCompIdMismatch(c, ts)
                ELSE IF parsed.msg_type = MsgSeqReset
                THEN onMessageDispatch(acceptInOrder(c), parsed, ts)
                ELSE IF U32Lt(c.expected_incoming_seq_num_, parsed.sequence_number)
                THEN onSequenceGap(c, ts)
                ELSE IF U32Lt(parsed.sequence_number, c.expected_incoming_seq_num_)
                THEN onSequenceTooLow(c, ts)
                ELSE onMessageDispatch(acceptInOrder(c), parsed, ts)

\* What Controller::onMessage computes from the frame alone: the envelope
\* check of the normalized frame and its parse.
Received(raw_message) ==
    LET normalized == normalize(raw_message)
    IN  [envelope |-> validateBodyLength(normalized) /\ validateChecksum(normalized),
         parse    |-> parseMessage(normalized)]

\* Controller::onMessage, given those two results.
onMessageOf(c, received, ts) ==
        IF ~received.envelope
        THEN onGarbled(c, TextInvalidEnvelope, ts)
        ELSE
        LET p == received.parse
        IN  IF ~p.ok THEN onGarbled(c, parseErrorText(p.error), ts)
            ELSE
            LET parsed == p.parsed
                sender == fieldValue(parsed, 49)
                target == fieldValue(parsed, 56)
            IN  IF sender # c.target_comp_id_ \/ target # c.sender_comp_id_
                THEN onCompIdMismatch(c, ts)
                ELSE IF U32Lt(c.expected_incoming_seq_num_, parsed.sequence_number)
                THEN onSequenceGap(c, ts)
                ELSE IF U32Lt(parsed.sequence_number, c.expected_incoming_seq_num_)
                THEN onSequenceTooLow(c, ts)
                ELSE onMessageDispatch(acceptInOrder(c), parsed, ts)

\* Controller::onMessage
onMessage(c, raw_message, ts) == onMessageOf(c, Received(raw_message), ts)

RECURSIVE ConsumeLoop(_, _)
RECURSIVE ConsumeLoop_once(_, _)
RECURSIVE ConsumeLoop_keepingCandidate(_, _)

\* The pass of the loop on buffer was its last: it left rest.  passes holds
\* the length of stream_buffer_ at the head of each pass.
LastPass(buffer, rest, messages) ==
    [stream_buffer_ |-> rest, messages |-> messages,
     passes |-> <<Len(buffer)>>, spins |-> FALSE]

\* loop is the loop on what the pass on buffer left.
AfterPass(buffer, loop) == [loop EXCEPT !.passes = <<Len(buffer)>> \o @]

\* The pass of the loop on buffer left rest and goes round again.  What a
\* pass does depends on stream_buffer_ alone and it only erases from it: a
\* pass that leaves it no shorter is repeated for ever, and spins tells so.
NextPass(buffer, rest, messages) ==
    IF Len(rest) >= Len(buffer)
    THEN [stream_buffer_ |-> rest, messages |-> messages,
          passes |-> <<Len(buffer)>>, spins |-> TRUE]
    ELSE AfterPass(buffer, ConsumeLoop(rest, messages))

\* A variant of the loop that leaves it after the first frame extracted.
ConsumeLoop_once(buffer, messages) ==
    LET begin == Find(buffer, StrBegin, 0)
    IN  IF begin = npos THEN LastPass(buffer, <<>>, messages)
        ELSE
        LET kept    == IF begin > 0 THEN Erase(buffer, begin) ELSE buffer
            trailer == Find(kept, StrTrailer, 0)
        IN  IF trailer = npos THEN LastPass(buffer, kept, messages)
            ELSE IF trailer + 8 > Len(kept)
            THEN LastPass(buffer, kept, messages)
            ELSE IF \/ ~IsDigit(At(kept, trailer + 4))
                    \/ ~IsDigit(At(kept, trailer + 5))
                    \/ ~IsDigit(At(kept, trailer + 6))
                    \/ At(kept, trailer + 7) # kSoh
            THEN AfterPass(buffer,
                           ConsumeLoop_once(Erase(kept, trailer + 1), messages))
            ELSE LastPass(buffer, Erase(kept, trailer + 8),
                          Append(messages, Substr(kept, 0, trailer + 8)))

\* A variant of the loop that goes round again on a bad trailer candidate
\* without dropping it.
ConsumeLoop_keepingCandidate(buffer, messages) ==
    LET begin == Find(buffer, StrBegin, 0)
    IN  IF begin = npos THEN LastPass(buffer, <<>>, messages)
        ELSE
        LET kept    == IF begin > 0 THEN Erase(buffer, begin) ELSE buffer
            trailer == Find(kept, StrTrailer, 0)
        IN  IF trailer = npos THEN LastPass(buffer, kept, messages)
            ELSE IF trailer + 8 > Len(kept)
            THEN LastPass(buffer, kept, messages)
            ELSE IF \/ ~IsDigit(At(kept, trailer + 4))
                    \/ ~IsDigit(At(kept, trailer + 5))
                    \/ ~IsDigit(At(kept, trailer + 6))
                    \/ At(kept, trailer + 7) # kSoh
            THEN NextPass(buffer, kept, messages)
            ELSE NextPass(buffer, Erase(kept, trailer + 8),
                          Append(messages, Substr(kept, 0, trailer + 8)))

\* The while(true) loop of Controller::consume on the buffer and the messages
\* extracted so far.
ConsumeLoop(buffer, messages) ==
    LET begin == Find(buffer, StrBegin, 0)
    IN  IF begin = npos THEN LastPass(buffer, <<>>, messages)
        ELSE
        LET kept    == IF begin > 0 THEN Erase(buffer, begin) ELSE buffer
            trailer == Find(kept, StrTrailer, 0)
        IN  IF trailer = npos THEN LastPass(buffer, kept, messages)
            ELSE IF trailer + 8 > Len(kept)
            THEN LastPass(buffer, kept, messages)
            ELSE IF \/ ~IsDigit(At(kept, trailer + 4))
                    \/ ~IsDigit(At(kept, trailer + 5))
                    \/ ~IsDigit(At(kept, trailer + 6))
                    \/ At(kept, trailer + 7) # kSoh
            THEN NextPass(buffer, Erase(kept, trailer + 1), messages)
            ELSE NextPass(buffer, Erase(kept, trailer + 8),
                          Append(messages, Substr(kept, 0, trailer + 8)))

\* A variant that returns the frames newest first.
consume_newestFirst(c, incoming_bytes) ==
    LET r == ConsumeLoop(c.stream_buffer_ \o normalize(incoming_bytes), <<>>)
    IN  [c |-> [c EXCEPT !.stream_buffer_ = r.stream_buffer_],
         messages |-> [i \in DOMAIN r.messages |->
                          r.messages[Len(r.messages) - i + 1]],
         log |-> [passes |-> r.passes, spins |-> r.spins]]

\* Controller::consume: the controller after the call and the vector
\* returned, with the passes of its loop.  A call whose loop spins does not
\* return: c and messages are then those the repeated pass began with.
consume(c, incoming_bytes) ==
    LET r == ConsumeLoop(c.stream_buffer_ \o normalize(incoming_bytes), <<>>)
    IN  [c |-> [c EXCEPT !.stream_buffer_ = r.stream_buffer_],
         messages |-> r.messages,
         log |-> [passes |-> r.passes, spins |-> r.spins]]

\* ------------------------------------------------- bounds and input sets

\* Peer sequence numbers 1..MaxSeq appear in inbound frames.
MaxSeq == 3

\* No call is taken that would leave next_outgoing_seq_num_ above MaxOut
\* (the counter may also sit at the top of its range, 2^32 - 1).
MaxOut == 4

IdInitiator == <<73, 78, 73, 84, 73, 65, 84, 79, 82>>   \* "INITIATOR"
IdAcceptor  == <<65, 67, 67, 69, 80, 84, 79, 82>>       \* "ACCEPTOR"
IdStranger  == <<88>>                                   \* "X"

\* What utcTimestamp() may return: YYYYMMDD-HH:MM:SS.mmm.
Timestamp1 ==   \* "20260211-09:30:00.000"
    <<50, 48, 50, 54, 48, 50, 49, 49, 45, 48, 57, 58, 51, 48, 58, 48, 48, 46, 48,
      48, 48>>
Timestamp2 ==   \* "20261231-23:59:59.999"
    <<50, 48, 50, 54, 49, 50, 51, 49, 45, 50, 51, 58, 53, 57, 58, 53, 57, 46, 57,
      57, 57>>
Timestamps == {Timestamp1, Timestamp2}
SessionClock == {Timestamp1}

Ids == {"initiator", "acceptor"}

\* The two controllers as the tests construct them.
NewController(id) ==
    IF id = "initiator"
    THEN Controller(IdInitiator, IdAcceptor, "kInitiator", DefaultBeginString,
                    DefaultHeartbeatInterval)
    ELSE Controller(IdAcceptor, IdInitiator, "kAcceptor", DefaultBeginString,
                    DefaultHeartbeatInterval)

Peer(id) == IF id = "initiator" THEN "acceptor" ELSE "initiator"

TestReqId == <<84, 49>>         \* "T1"
TextBye   == <<98, 121, 101>>   \* "bye"
MsgOrder  == <<68>>             \* "D"
SymbolIbm == <<73, 66, 77>>     \* "IBM"

PeerSeqs == {U32(n) : n \in 1..MaxSeq} \cup {U32Max}

\* Frames a peer with mirrored CompIDs could put on the wire for id.
WellFormedFrames(id) ==
    LET peer == NewController(Peer(id))
        F(t, fields, s) == buildMessageWithSeqNum(peer, t, fields, s, Timestamp2)
    IN  {F(t, <<>>, s) : t \in {MsgLogon, MsgHeartbeat, MsgResendReq, MsgLogout,
                                 MsgOrder}, s \in PeerSeqs}
        \cup {F(MsgTestRequest, f, s) :
                  f \in {<<>>, <<<<112, TestReqId>>>>, <<<<112, <<>>>>>>},
                  s \in PeerSeqs}
        \cup {F(MsgSeqReset, f, s) :
                  f \in {<<>>, <<<<36, toString(U32(1))>>>>,
                         <<<<36, toString(U32(MaxSeq + 2))>>>>,
                         <<<<36, toString(U32Max)>>>>, <<<<36, MsgOrder>>>>},
                  s \in PeerSeqs}

\* Well-formed frames whose tag 49 or tag 56 is not the one id expects.
MismatchedFrames(id) ==
    LET me == NewController(id)
        wrongSender == [NewController(Peer(id)) EXCEPT !.sender_comp_id_ = IdStranger]
        wrongTarget == [NewController(Peer(id)) EXCEPT !.target_comp_id_ = IdStranger]
    IN  {buildMessageWithSeqNum(x, t, <<>>, s, Timestamp2) :
             x \in {wrongSender, wrongTarget}, t \in {MsgHeartbeat, MsgLogon},
             s \in {U32(1), U32(MaxSeq)}}

\* "8=FIX.4.4|9=<len>|" body "10=<sum>|" around an arbitrary body.
Enveloped(body) ==
    LET message == StrBegin \o DefaultBeginString \o <<kSoh>>
                   \o StrBodyLen \o IntToString(Len(body)) \o <<kSoh>> \o body
    IN  message \o StrCheckSum \o toChecksum(message) \o <<kSoh>>

\* The literal of the test RejectsGarbledMessage: "8=FIX.4.4|9=10|35=0|34=2|10=000|"
GarbledLiteral ==
    <<56, 61, 70, 73, 88, 46, 52, 46, 52, 124, 57, 61, 49, 48, 124, 51, 53, 61, 48,
      124, 51, 52, 61, 50, 124, 49, 48, 61, 48, 48, 48, 124>>

\* Frames that fail the envelope check or the parse.
GarbledFrames(id) ==
    LET good == buildMessageWithSeqNum(NewController(Peer(id)), MsgHeartbeat, <<>>,
                                       U32(1), Timestamp2)
        n == Len(good)
    IN  { GarbledLiteral,
          \* the last checksum digit changed
          [good EXCEPT ![n - 1] = IF good[n - 1] = Ch9 THEN Ch0 ELSE good[n - 1] + 1],
          \* a token without '='
          Enveloped(StrMsgType \o MsgHeartbeat \o <<kSoh>> \o SymbolIbm \o <<kSoh>>),
          \* a tag that is not numeric
          Enveloped(StrMsgType \o MsgHeartbeat \o <<kSoh>>
                    \o SymbolIbm \o <<ChEq>> \o <<Ch0, kSoh>>),
          \* no tag 35
          Enveloped(StrSeqNum \o <<Ch0 + 1, kSoh>>),
          \* no tag 34
          Enveloped(StrMsgType \o MsgHeartbeat \o <<kSoh>>),
          \* tag 34 is not an unsigned decimal
          Enveloped(StrMsgType \o MsgHeartbeat \o <<kSoh>>
                    \o StrSeqNum \o SymbolIbm \o <<kSoh>>) }

\* Frames whose length and checksum are right but whose framing is not: a
\* Logon whose first field is 7=FIX.4.4, and a Heartbeat whose last byte, after
\* the three checksum digits, is 'X'.
MisframedFrames(id) ==
    LET peer  == NewController(Peer(id))
        logon == buildMessageWithSeqNum(peer, MsgLogon, <<>>, U32(1), Timestamp2)
        beat  == buildMessageWithSeqNum(peer, MsgHeartbeat, <<>>, U32(1),
                                        Timestamp2)
        head  == [Substr(logon, 0, Len(logon) - 7) EXCEPT ![1] = Ch0 + 7]
    IN  { head \o StrCheckSum \o toChecksum(head) \o <<kSoh>>,
          [beat EXCEPT ![Len(beat)] = 88] }

InboundFrames ==
    [id \in Ids |-> WellFormedFrames(id) \cup MismatchedFrames(id)
                    \cup GarbledFrames(id) \cup MisframedFrames(id)]

\* The envelope check and the parse of each of these frames, computed once.
AllInbound == UNION {InboundFrames[id] : id \in Ids}
ReceivedInbound == [raw_message \in AllInbound |-> Received(raw_message)]

\* skipOutboundSequence deltas: small steps and one that carries past 2^32 - 1.
SkipDeltas == {U32(1), U32(2), <<Limb - 1, Limb - 2>>}

\* Chunks for consume during a session: garbage, and one complete frame.
SessionChunks ==
    {SymbolIbm,
     buildMessageWithSeqNum(NewController("initiator"), MsgHeartbeat, <<>>, U32(1),
                            Timestamp1)}

\* ------------------------------------------------------------------ state

VARIABLES
    ctl,       \* the controllers: id -> Controller
    call,      \* the call that has just returned (op, self, pre, arg, log)
    ret,       \* what that call returned
    chan,      \* id -> the frames on the wire towards id, oldest first
    pending,   \* bytes of a stream not yet handed to consume
    sent,      \* the frames that stream was made of
    emitted    \* the frames consume has returned so far

vars == <<ctl, call, ret, chan, pending, sent, emitted>>

NoCall == [op |-> "idle"]

Idle == call.op = "idle"

\* The part of the outgoing counter's range that is explored.
InWindow(n) == n = U32Max \/ U32Le(n, U32(MaxOut))

\* The caller sees op(arg) on controller self return retval, leaving r.c.
Returns(self, op, arg, r, retval) ==
    /\ InWindow(r.c.next_outgoing_seq_num_)
    /\ ctl' = [ctl EXCEPT ![self] = r.c]
    /\ call' = [op |-> op, self |-> self, pre |-> ctl[self], arg |-> arg,
                log |-> r.log]
    /\ ret' = retval

\* ---------------------------------------------- Spec: one controller, any input

Init ==
    /\ \E id \in Ids : ctl = [i \in {id} |-> NewController(i)]
    /\ call = NoCall
    /\ ret = <<>>
    /\ chan = <<>>
    /\ pending = <<>>
    /\ sent = <<>>
    /\ emitted = <<>>

BuildLogon(self) ==
    /\ Idle /\ self \in DOMAIN ctl
    /\ \E reset_seq_num \in BOOLEAN, ts \in SessionClock :
          LET r == buildLogon(ctl[self], reset_seq_num, ts)
          IN  Returns(self, "buildLogon", reset_seq_num, r, r.message)
    /\ UNCHANGED <<chan, pending, sent, emitted>>

BuildHeartbeat(self) ==
    /\ Idle /\ self \in DOMAIN ctl
    /\ \E test_req_id \in {<<>>, TestReqId}, ts \in SessionClock :
          LET r == buildHeartbeat(ctl[self], test_req_id, ts)
          IN  Returns(self, "buildHeartbeat", test_req_id, r, r.message)
    /\ UNCHANGED <<chan, pending, sent, emitted>>

BuildTestRequest(self) ==
    /\ Idle /\ self \in DOMAIN ctl
    /\ \E ts \in SessionClock :
          LET r == buildTestRequest(ctl[self], TestReqId, ts)
          IN  Returns(self, "buildTestRequest", TestReqId, r, r.message)
    /\ UNCHANGED <<chan, pending, sent, emitted>>

BuildLogout(self) ==
    /\ Idle /\ self \in DOMAIN ctl
    /\ \E text \in {<<>>, TextBye}, ts \in SessionClock :
          LET r == buildLogout(ctl[self], text, ts)
          IN  Returns(self, "buildLogout", text, r, r.message)
    /\ UNCHANGED <<chan, pending, sent, emitted>>

BuildResendRequest(self) ==
    /\ Idle /\ self \in DOMAIN ctl
    /\ \E begin_seq_no \in {U32(1), U32(MaxSeq)}, ts \in SessionClock :
          LET r == buildResendRequest(ctl[self], begin_seq_no, U32(0), ts)
          IN  Returns(self, "buildResendRequest", begin_seq_no, r, r.message)
    /\ UNCHANGED <<chan, pending, sent, emitted>>

BuildApplicationMessage(self) ==
    /\ Idle /\ self \in DOMAIN ctl
    /\ \E fields \in {<<>>, <<<<55, SymbolIbm>>>>}, ts \in SessionClock :
          LET r == buildApplicationMessage(ctl[self], MsgOrder, fields, ts)
          IN  Returns(self, "buildApplicationMessage", fields, r, r.message)
    /\ UNCHANGED <<chan, pending, sent, emitted>>

SkipOutboundSequence(self) ==
    /\ Idle /\ self \in DOMAIN ctl
    /\ \E delta \in SkipDeltas :
          LET c == skipOutboundSequence(ctl[self], delta)
          IN  Returns(self, "skipOutboundSequence", delta,
                      [c |-> c, log |-> <<>>], <<>>)
    /\ UNCHANGED <<chan, pending, sent, emitted>>

Consume(self) ==
    /\ Idle /\ self \in DOMAIN ctl
    /\ \E incoming_bytes \in SessionChunks :
          LET r == consume(ctl[self], incoming_bytes)
          IN  Returns(self, "consume", incoming_bytes,
                      [c |-> r.c, log |-> r.log], r.messages)
    /\ UNCHANGED <<chan, pending, sent, emitted>>

\* onMessage on any frame the wire may carry.
OnMessage(self) ==
    /\ Idle /\ self \in DOMAIN ctl
    /\ \E raw_message \in InboundFrames[self], ts \in SessionClock :
          LET r == onMessageOf(ctl[self], ReceivedInbound[raw_message], ts)
          IN  Returns(self, "onMessage", raw_message, r, r.action)
    /\ UNCHANGED <<chan, pending, sent, emitted>>

\* The caller is done with the returned value.
Return ==
    /\ ~Idle
    /\ call.op # "never returns"
    /\ call' = NoCall
    /\ ret' = <<>>
    /\ UNCHANGED <<ctl, chan, pending, sent, emitted>>

Next ==
    \/ \E self \in Ids :
          \/ BuildLogon(self)
          \/ BuildHeartbeat(self)
          \/ BuildTestRequest(self)
          \/ BuildLogout(self)
          \/ BuildResendRequest(self)
          \/ BuildApplicationMessage(self)
          \/ SkipOutboundSequence(self)
          \/ Consume(self)
          \/ OnMessage(self)
    \/ Return

Spec == Init /\ [][Next]_vars

\* ------------------------- SpecPair: an initiator and an acceptor, FIFO channels

\* The two controllers of the tests, nothing built and nothing on the wire.
InitPair ==
    /\ ctl = [id \in Ids |-> NewController(id)]
    /\ call = NoCall
    /\ ret = <<>>
    /\ chan = [id \in Ids |-> <<>>]
    /\ pending = <<>>
    /\ sent = <<>>
    /\ emitted = <<>>

\* The initiator opens the session: initiator.buildLogon(false).
OpenSession ==
    /\ Idle
    /\ ctl["initiator"].state_ = "kDisconnected"
    /\ \E ts \in SessionClock :
          LET r == buildLogon(ctl["initiator"], FALSE, ts)
          IN  Returns("initiator", "buildLogon", FALSE, r, r.message)
    /\ UNCHANGED <<chan, pending, sent, emitted>>

\* Traffic of an established session.
SessionHeartbeat(self) ==
    /\ Idle
    /\ ctl[self].state_ = "kEstablished"
    /\ \E ts \in SessionClock :
          LET r == buildHeartbeat(ctl[self], <<>>, ts)
          IN  Returns(self, "buildHeartbeat", <<>>, r, r.message)
    /\ UNCHANGED <<chan, pending, sent, emitted>>

SessionTestRequest(self) ==
    /\ Idle
    /\ ctl[self].state_ = "kEstablished"
    /\ \E ts \in SessionClock :
          LET r == buildTestRequest(ctl[self], TestReqId, ts)
          IN  Returns(self, "buildTestRequest", TestReqId, r, r.message)
    /\ UNCHANGED <<chan, pending, sent, emitted>>

SessionApplicationMessage(self) ==
    /\ Idle
    /\ ctl[self].state_ = "kEstablished"
    /\ \E ts \in SessionClock :
          LET fields == <<<<55, SymbolIbm>>>>
              r == buildApplicationMessage(ctl[self], MsgOrder, fields, ts)
          IN  Returns(self, "buildApplicationMessage", fields, r, r.message)
    /\ UNCHANGED <<chan, pending, sent, emitted>>

SessionLogout(self) ==
    /\ Idle
    /\ ctl[self].state_ = "kEstablished"
    /\ \E ts \in SessionClock :
          LET r == buildLogout(ctl[self], TextBye, ts)
          IN  Returns(self, "buildLogout", TextBye, r, r.message)
    /\ UNCHANGED <<chan, pending, sent, emitted>>

\* self takes the oldest frame off its wire and hands it to onMessage.
Deliver(self) ==
    /\ Idle
    /\ chan[self] # <<>>
    /\ \E ts \in SessionClock :
          LET r == onMessage(ctl[self], Head(chan[self]), ts)
          IN  Returns(self, "onMessage", Head(chan[self]), r, r.action)
    /\ chan' = [chan EXCEPT ![self] = Tail(@)]
    /\ UNCHANGED <<pending, sent, emitted>>

\* What the last call built goes on the wire to the peer, in build order.
Send ==
    /\ ~Idle
    /\ chan' = [chan EXCEPT ![Peer(call.self)] =
                    @ \o (IF call.op = "onMessage" THEN ret.outbound_messages
                          ELSE <<ret>>)]
    /\ call' = NoCall
    /\ ret' = <<>>
    /\ UNCHANGED <<ctl, pending, sent, emitted>>

NextPair ==
    \/ OpenSession
    \/ \E self \in Ids :
          \/ SessionHeartbeat(self)
          \/ SessionTestRequest(self)
          \/ SessionApplicationMessage(self)
          \/ SessionLogout(self)
          \/ Deliver(self)
    \/ Send

SpecPair == InitPair /\ [][NextPair]_vars

\* ------------------- SpecBuild: the builders, on any identity and any fields

IdPiped     == <<65, 124, 66>>            \* "A|B"
TextPiped   == <<97, 124, 98>>            \* "a|b"
FixtBegin   == <<70, 73, 88, 84, 46, 49, 46, 49>>   \* "FIXT.1.1"
SplitBegin  == <<70, 73, 88, 1, 52>>      \* "FIX" SOH "4"
Checksum000 == <<48, 48, 48>>             \* "000"

BuildIds          == {IdInitiator, IdAcceptor, IdPiped}
BuildBeginStrings == {DefaultBeginString, FixtBegin, SplitBegin}
BuildTexts        == {<<>>, TextBye, TextPiped}
BuildFields       == {<<>>, <<<<55, SymbolIbm>>>>, <<<<58, TextPiped>>>>,
                      <<<<10, Checksum000>>, <<0 - 1, TextBye>>>>}

\* A controller constructed with any of the identities and begin strings.
InitBuild ==
    /\ \E sender \in BuildIds, target \in BuildIds, begin_string \in BuildBeginStrings :
          ctl = [i \in {"initiator"} |->
                    Controller(sender, target, "kInitiator", begin_string,
                               DefaultHeartbeatInterval)]
    /\ call = NoCall
    /\ ret = <<>>
    /\ chan = <<>>
    /\ pending = <<>>
    /\ sent = <<>>
    /\ emitted = <<>>

AnyBuildLogon(self) ==
    /\ Idle /\ self \in DOMAIN ctl
    /\ \E reset_seq_num \in BOOLEAN, ts \in Timestamps :
          LET r == buildLogon(ctl[self], reset_seq_num, ts)
          IN  Returns(self, "buildLogon", reset_seq_num, r, r.message)
    /\ UNCHANGED <<chan, pending, sent, emitted>>

AnyBuildHeartbeat(self) ==
    /\ Idle /\ self \in DOMAIN ctl
    /\ \E test_req_id \in BuildTexts, ts \in Timestamps :
          LET r == buildHeartbeat(ctl[self], test_req_id, ts)
          IN  Returns(self, "buildHeartbeat", test_req_id, r, r.message)
    /\ UNCHANGED <<chan, pending, sent, emitted>>

AnyBuildTestRequest(self) ==
    /\ Idle /\ self \in DOMAIN ctl
    /\ \E test_req_id \in BuildTexts, ts \in Timestamps :
          LET r == buildTestRequest(ctl[self], test_req_id, ts)
          IN  Returns(self, "buildTestRequest", test_req_id, r, r.message)
    /\ UNCHANGED <<chan, pending, sent, emitted>>

AnyBuildLogout(self) ==
    /\ Idle /\ self \in DOMAIN ctl
    /\ \E text \in BuildTexts, ts \in Timestamps :
          LET r == buildLogout(ctl[self], text, ts)
          IN  Returns(self, "buildLogout", text, r, r.message)
    /\ UNCHANGED <<chan, pending, sent, emitted>>

AnyBuildResendRequest(self) ==
    /\ Idle /\ self \in DOMAIN ctl
    /\ \E begin_seq_no \in PeerSeqs, end_seq_no \in {U32(0), U32Max},
          ts \in Timestamps :
          LET r == buildResendRequest(ctl[self], begin_seq_no, end_seq_no, ts)
          IN  Returns(self, "buildResendRequest", begin_seq_no, r, r.message)
    /\ UNCHANGED <<chan, pending, sent, emitted>>

AnyBuildApplicationMessage(self) ==
    /\ Idle /\ self \in DOMAIN ctl
    /\ \E msg_type \in {MsgOrder, TextPiped}, fields \in BuildFields,
          ts \in Timestamps :
          LET r == buildApplicationMessage(ctl[self], msg_type, fields, ts)
          IN  Returns(self, "buildApplicationMessage", fields, r, r.message)
    /\ UNCHANGED <<chan, pending, sent, emitted>>

NextBuild ==
    \/ \E self \in Ids :
          \/ AnyBuildLogon(self)
          \/ AnyBuildHeartbeat(self)
          \/ AnyBuildTestRequest(self)
          \/ AnyBuildLogout(self)
          \/ AnyBuildResendRequest(self)
          \/ AnyBuildApplicationMessage(self)
    \/ Return

SpecBuild == InitBuild /\ [][NextBuild]_vars

\* ------------------------ SpecConsume: a stream of valid frames, fed in chunks

\* The longest chunk tried, short of the whole rest of the stream.
MaxChunk == 2

\* Two valid frames: a Heartbeat, and a Logon (whose 98=0 and 108=30 hold "8=").
FrameHeartbeat ==
    buildMessageWithSeqNum(NewController("initiator"), MsgHeartbeat, <<>>, U32(1),
                           Timestamp1)
FrameLogon ==
    buildMessageWithSeqNum(NewController("initiator"), MsgLogon,
                           <<<<98, <<Ch0>>>>, <<108, IntToString(30)>>>>, U32(2),
                           Timestamp2)

Streams ==
    {<<FrameHeartbeat>>, <<FrameHeartbeat, FrameLogon>>,
     <<FrameLogon, FrameHeartbeat>>}

RECURSIVE Concat(_)
Concat(frames) ==
    IF frames = <<>> THEN <<>> ELSE Head(frames) \o Concat(Tail(frames))

\* A receiver and a stream of which nothing has been handed to consume yet.
InitConsume ==
    /\ ctl = [i \in {"acceptor"} |-> NewController(i)]
    /\ call = NoCall
    /\ ret = <<>>
    /\ chan = <<>>
    /\ \E frames \in Streams : sent = frames /\ pending = Concat(frames)
    /\ emitted = <<>>

\* The next n bytes of the stream go to consume.
Feed(self) ==
    /\ Idle /\ self \in DOMAIN ctl
    /\ pending # <<>>
    /\ \E n \in (1..MaxChunk) \cup {Len(pending)} :
          /\ n <= Len(pending)
          /\ LET incoming_bytes == SubSeq(pending, 1, n)
                 r == consume(ctl[self], incoming_bytes)
             IN  /\ Returns(self, "consume", incoming_bytes,
                            [c |-> r.c, log |-> r.log], r.messages)
                 /\ emitted' = emitted \o r.messages
          /\ pending' = SubSeq(pending, n + 1, Len(pending))
    /\ UNCHANGED <<chan, sent>>

NextConsume ==
    \/ \E self \in Ids : Feed(self)
    \/ Return

SpecConsume == InitConsume /\ [][NextConsume]_vars

\* ------------------------------- SpecReframe: consume on fragments and wires

\* The longest stream_buffer_ plus fragment handed to the loop of consume.
MaxBuffer == 12

\* A frame as a peer may write it, with '|' for SOH.
Piped(message) ==
    [i \in 1..Len(message) |-> IF message[i] = kSoh THEN ChPipe ELSE message[i]]

\* Pieces of frames as they may arrive: "8=", SOH, "10=", a digit, '|', and the
\* end of one frame with the start of the next.
Fragments ==
    {StrBegin, <<kSoh>>, <<Ch0 + 1, Ch0, ChEq>>, <<Ch0>>, <<ChPipe>>,
     <<Ch0, kSoh>> \o StrBegin}

\* Bytes between frames that hold neither "8=" nor SOH "10=".
Garbage == {<<>>, SymbolIbm, <<88, 56>>, <<Ch0 + 1, Ch0, ChEq>>, <<kSoh>>}

\* A frame whose trailer lacks its SOH: 'X' is in its place.
Unterminated(frame) == SubSeq(frame, 1, Len(frame) - 1) \o <<88>>

\* One or two valid frames with garbage before, between and after them, and
\* a valid frame after a frame with a bad trailer.
Wires ==
    LET frames == {FrameHeartbeat, FrameLogon, Piped(FrameHeartbeat)}
    IN  {[frames |-> <<f2>>, bytes |-> Unterminated(f1) \o f2] :
             f1 \in frames, f2 \in frames}
        \cup
        {[frames |-> <<f1>>, bytes |-> g0 \o f1 \o g1] :
             g0 \in Garbage, f1 \in frames, g1 \in Garbage}
        \cup {[frames |-> <<f1, f2>>, bytes |-> g0 \o f1 \o g1 \o f2 \o g2] :
                  g0 \in Garbage, f1 \in frames, g1 \in Garbage, f2 \in frames,
                  g2 \in Garbage}

\* A receiver with an empty stream_buffer_.
InitReframe ==
    /\ ctl = [i \in {"acceptor"} |-> NewController(i)]
    /\ call = NoCall
    /\ ret = <<>>
    /\ chan = <<>>
    /\ pending = <<>>
    /\ sent = <<>>
    /\ emitted = <<>>

\* consume on the next fragment off the wire.
FeedFragment(self) ==
    /\ Idle /\ self \in DOMAIN ctl
    /\ \E incoming_bytes \in Fragments :
          /\ Len(ctl[self].stream_buffer_) + Len(incoming_bytes) <= MaxBuffer
          /\ LET r == consume(ctl[self], incoming_bytes)
             IN  Returns(self, "consume", incoming_bytes,
                         [c |-> r.c, log |-> r.log], r.messages)
    /\ sent' = <<>>
    /\ UNCHANGED <<chan, pending, emitted>>

\* consume, once, on a whole wire of frames and garbage.
ConsumeWire(self) ==
    /\ Idle /\ self \in DOMAIN ctl
    /\ ctl[self].stream_buffer_ = <<>>
    /\ \E wire \in Wires :
          /\ LET r == consume(ctl[self], wire.bytes)
             IN  Returns(self, "consume", wire.bytes,
                         [c |-> r.c, log |-> r.log], r.messages)
          /\ sent' = wire.frames
    /\ UNCHANGED <<chan, pending, emitted>>

NextReframe ==
    \/ \E self \in Ids :
          \/ FeedFragment(self)
          \/ ConsumeWire(self)
    \/ Return

SpecReframe == InitReframe /\ [][NextReframe]_vars

\* ------------------ SpecSync: two controllers, each building what it likes
\* Either side builds TestRequests, which the peer answers with Heartbeats,
\* Logouts and SequenceResets at any time after its Logon.

\* The NewSeqNo of the SequenceReset a caller has built.
SyncNewSeqNo == IntToString(MaxOut)

\* The initiator builds its Logon first, and the acceptor nothing before it
\* has received one.
MayBuild(self) ==
    /\ Idle
    /\ IF self = "initiator" THEN ctl[self].logon_sent_
       ELSE ctl[self].logon_received_

\* self has built r.message, which goes on the wire to its peer at once.
BuiltAndSent(self, r) ==
    /\ InWindow(r.c.next_outgoing_seq_num_)
    /\ ctl' = [ctl EXCEPT ![self] = r.c]
    /\ chan' = [chan EXCEPT ![Peer(self)] = Append(@, r.message)]
    /\ UNCHANGED <<call, ret, pending, emitted>>

AnyTimeTestRequest(self) ==
    /\ MayBuild(self)
    /\ \E ts \in SessionClock :
          BuiltAndSent(self, buildTestRequest(ctl[self], TestReqId, ts))
    /\ UNCHANGED sent

AnyTimeLogout(self) ==
    /\ MayBuild(self)
    /\ \E ts \in SessionClock :
          BuiltAndSent(self, buildLogout(ctl[self], TextBye, ts))
    /\ UNCHANGED sent

\* buildApplicationMessage("4", {{36, NewSeqNo}}): the builder of application
\* messages takes any msg_type.  sent keeps the SequenceResets built.
AnyTimeSequenceReset(self) ==
    /\ MayBuild(self)
    /\ \E ts \in SessionClock :
          \E r \in {buildApplicationMessage(ctl[self], MsgSeqReset,
                                            <<<<36, SyncNewSeqNo>>>>, ts)} :
              /\ BuiltAndSent(self, r)
              /\ sent' = Append(sent, r.message)

NextSync ==
    \/ OpenSession
    \/ \E self \in Ids :
          \/ AnyTimeTestRequest(self)
          \/ AnyTimeLogout(self)
          \/ AnyTimeSequenceReset(self)
          \/ Deliver(self)
    \/ Send

SpecSync == InitPair /\ [][NextSync]_vars

\* ------------- SpecGap: an initiator whose counter skips ahead of the acceptor

\* The NewSeqNo of the SequenceResets the initiator builds: past every number
\* it gives a frame.
GapNewSeqNo == toString(U32(MaxOut + 2))

\* The initiator built r.message, which goes on the wire at once.  It may
\* count one past MaxOut, for the number it skipped.
PeerBuilt(r) ==
    /\ U32Le(r.c.next_outgoing_seq_num_, U32(MaxOut + 1))
    /\ ctl' = [ctl EXCEPT !["initiator"] = r.c]
    /\ chan' = [chan EXCEPT !["acceptor"] = Append(@, r.message)]
    /\ UNCHANGED <<call, ret, pending, sent, emitted>>

\* initiator.skipOutboundSequence(1), once, in a session that is in step.
PeerSkips ==
    /\ Idle
    /\ ctl["initiator"].state_ = "kEstablished"
    /\ chan["acceptor"] = <<>>
    /\ ctl["initiator"].next_outgoing_seq_num_ =
           ctl["acceptor"].expected_incoming_seq_num_
    /\ ctl' = [ctl EXCEPT !["initiator"] = skipOutboundSequence(@, U32(1))]
    /\ UNCHANGED <<call, ret, chan, pending, sent, emitted>>

PeerHeartbeat ==
    /\ Idle
    /\ ctl["initiator"].state_ = "kEstablished"
    /\ \E ts \in SessionClock :
          PeerBuilt(buildHeartbeat(ctl["initiator"], <<>>, ts))

PeerTestRequest ==
    /\ Idle
    /\ ctl["initiator"].state_ = "kEstablished"
    /\ \E ts \in SessionClock :
          PeerBuilt(buildTestRequest(ctl["initiator"], TestReqId, ts))

\* buildApplicationMessage("4", {{36, NewSeqNo}})
PeerSequenceReset ==
    /\ Idle
    /\ ctl["initiator"].state_ = "kEstablished"
    /\ \E ts \in SessionClock :
          PeerBuilt(buildApplicationMessage(ctl["initiator"], MsgSeqReset,
                                            <<<<36, GapNewSeqNo>>>>, ts))

\* self takes the oldest frame off its wire and hands it to onMessage.
\* pending keeps, of the first frame the acceptor answered with sequence_gap,
\* its MsgSeqNum and the expected_incoming_seq_num_ it met.
GapDeliver(self) ==
    /\ Idle
    /\ chan[self] # <<>>
    /\ \E ts \in SessionClock :
          \E r \in {onMessage(ctl[self], Head(chan[self]), ts)} :
              /\ Returns(self, "onMessage", Head(chan[self]), r, r.action)
              /\ pending' =
                     IF /\ self = "acceptor"
                        /\ pending = <<>>
                        /\ r.action.events = <<"sequence_gap">>
                     THEN <<[expected |-> ctl[self].expected_incoming_seq_num_,
                             seq      |-> Received(Head(chan[self])).parse.parsed
                                              .sequence_number]>>
                     ELSE pending
    /\ chan' = [chan EXCEPT ![self] = Tail(@)]
    /\ UNCHANGED <<sent, emitted>>

NextGap ==
    \/ OpenSession
    \/ PeerSkips
    \/ PeerHeartbeat
    \/ PeerTestRequest
    \/ PeerSequenceReset
    \/ \E self \in Ids : GapDeliver(self)
    \/ Send

SpecGap == InitPair /\ [][NextGap]_vars

\* ------------------------------------------------ Decoder: tokens and versions

\* Decoder::normalizeMessage: '|' becomes SOH only in a message without SOH.
normalizeMessage(raw) ==
    IF /\ \A i \in 1..Len(raw) : raw[i] # kSoh
       /\ \E i \in 1..Len(raw) : raw[i] = ChPipe
    THEN [i \in 1..Len(raw) |-> IF raw[i] = ChPipe THEN kSoh ELSE raw[i]]
    ELSE raw

RECURSIVE SplitTagsFrom(_, _, _)
\* The loop of Decoder::splitTags from the token at start, with the fields
\* found so far: a token counts when an '=' stands before its end and what
\* precedes it is an int above 0.
SplitTagsFrom(message, start, result) ==
    IF start >= Len(message) THEN result
    ELSE LET end       == Find(message, <<kSoh>>, start)
             token_end == IF end = npos THEN Len(message) ELSE end
             eq_pos    == Find(message, <<ChEq>>, start)
             tag       == ParseInt(Substr(message, start, eq_pos - start))
             found     == IF eq_pos # npos /\ eq_pos < token_end /\ tag.ok
                             /\ tag.value > 0
                          THEN Append(result, [tag         |-> tag.value,
                                               value_begin |-> eq_pos + 1,
                                               value_end   |-> token_end])
                          ELSE result
         IN  IF end = npos THEN found ELSE SplitTagsFrom(message, end + 1, found)

\* Decoder::splitTags: ParsedField{tag, value_begin, value_end}, in wire order.
splitTags(message) == SplitTagsFrom(message, 0, <<>>)

\* The bytes a ParsedField or ValidationField delimits.
ValueOf(message, field) ==
    Substr(message, field.value_begin, field.value_end - field.value_begin)

RECURSIVE ExtractTagValueFrom(_, _, _)
\* The loop of extractTagValue: the value of the first token whose tag parses
\* to wanted_tag, or the empty string.
ExtractTagValueFrom(message, wanted_tag, start) ==
    IF start >= Len(message) THEN <<>>
    ELSE LET end        == Find(message, <<kSoh>>, start)
             token_end  == IF end = npos THEN Len(message) ELSE end
             eq_pos     == Find(message, <<ChEq>>, start)
             parsed_tag == ParseInt(Substr(message, start, eq_pos - start))
         IN  IF eq_pos # npos /\ eq_pos < token_end /\ parsed_tag.ok
                /\ parsed_tag.value = wanted_tag
             THEN Substr(message, eq_pos + 1, token_end - (eq_pos + 1))
             ELSE IF end = npos THEN <<>>
             ELSE ExtractTagValueFrom(message, wanted_tag, end + 1)

extractTagValue(message, wanted_tag) == ExtractTagValueFrom(message, wanted_tag, 0)

Fix40 == <<70, 73, 88, 46, 52, 46, 48>>   \* "FIX.4.0"
Fix41 == <<70, 73, 88, 46, 52, 46, 49>>   \* "FIX.4.1"
Fix42 == <<70, 73, 88, 46, 52, 46, 50>>   \* "FIX.4.2"
Fix43 == <<70, 73, 88, 46, 52, 46, 51>>   \* "FIX.4.3"
Fix50 == <<70, 73, 88, 46, 53, 46, 48>>   \* "FIX.5.0"

applicationVersionIdToBeginString(value) ==
    CASE value = <<50>> -> Fix40                      \* "2"
      [] value = <<51>> -> Fix41                      \* "3"
      [] value = <<52>> -> Fix42                      \* "4"
      [] value = <<53>> -> Fix43                      \* "5"
      [] value = <<54>> -> DefaultBeginString         \* "6"
      [] value \in {<<55>>, <<56>>, <<57>>} -> Fix50  \* "7", "8", "9"
      [] OTHER -> value

\* The BeginStrings generated::fixNN::kBeginString of the generated decoder
\* maps.
GeneratedBeginStrings ==
    {Fix40, Fix41, Fix42, Fix43, DefaultBeginString, Fix50, FixtBegin}

\* selectVersionDecoder: the effective BeginString and the resolver chosen by
\* it (named by its BeginString; <<>> is nullptr).
selectVersionDecoder(message) ==
    LET begin_string    == extractTagValue(message, 8)
        appl_ver_id     == extractTagValue(message, 1128)
        effective_begin == IF appl_ver_id # <<>>
                           THEN applicationVersionIdToBeginString(appl_ver_id)
                           ELSE begin_string
    IN  [begin_string |-> effective_begin,
         resolver     |-> IF effective_begin \in GeneratedBeginStrings
                          THEN effective_begin ELSE <<>>]

\* ------------------------------------------------------ Decoder: dictionaries

\* A pointer is a sequence of at most one element; <<>> is nullptr.
FieldDef(number, name, type) == [number |-> number, name |-> name, type |-> type]

Member(kind, name, required, children) ==
    [kind |-> kind, name |-> name, required |-> required, children |-> children]

MessageDef(name, msg_type, members) ==
    [name |-> name, msg_type |-> msg_type, members |-> members]

NameSymbol        == <<83, 121, 109, 98, 111, 108>>   \* "Symbol"
NameNoPartyIDs    == <<78, 111, 80, 97, 114, 116, 121, 73, 68, 115>>   \* "NoPartyIDs"
NamePartyID       == <<80, 97, 114, 116, 121, 73, 68>>   \* "PartyID"
NamePartyIDSource == <<80, 97, 114, 116, 121, 73, 68, 83, 111, 117, 114, 99, 101>>   \* "PartyIDSource"
NamePartyRole     == <<80, 97, 114, 116, 121, 82, 111, 108, 101>>   \* "PartyRole"
NameParties       == <<80, 97, 114, 116, 105, 101, 115>>   \* "Parties"
TypeString        == <<83, 84, 82, 73, 78, 71>>   \* "STRING"
TypeInt           == <<73, 78, 84>>   \* "INT"

\* kMinimalFix42 of the decoder tests, loaded under begin_string.
MinimalDictionary(begin_string) ==
    [begin_string |-> begin_string,
     fields     |-> {FieldDef(8, <<66, 101, 103, 105, 110, 83, 116, 114, 105, 110, 103>>, TypeString),   \* "BeginString"
                     FieldDef(35, <<77, 115, 103, 84, 121, 112, 101>>, TypeString),   \* "MsgType"
                     FieldDef(55, NameSymbol, TypeString)},
     messages   |-> {MessageDef(<<84, 101, 115, 116, 77, 115, 103>>, <<84>>,   \* "TestMsg", "T"
                                <<Member("Field", NameSymbol, TRUE, <<>>)>>)},
     components |-> {}]

\* kFix42WithComponentAndGroup of the decoder tests, loaded under begin_string.
GroupDictionary(begin_string) ==
    [begin_string |-> begin_string,
     fields     |-> {FieldDef(8, <<66, 101, 103, 105, 110, 83, 116, 114, 105, 110, 103>>, TypeString),   \* "BeginString"
                     FieldDef(35, <<77, 115, 103, 84, 121, 112, 101>>, TypeString),   \* "MsgType"
                     FieldDef(55, NameSymbol, TypeString),
                     FieldDef(453, NameNoPartyIDs, <<78, 85, 77, 73, 78, 71, 82, 79, 85, 80>>),   \* "NUMINGROUP"
                     FieldDef(448, NamePartyID, TypeString),
                     FieldDef(447, NamePartyIDSource, <<67, 72, 65, 82>>),   \* "CHAR"
                     FieldDef(452, NamePartyRole, TypeInt)},
     messages   |-> {MessageDef(<<78, 101, 119, 79, 114, 100, 101, 114, 83, 105, 110, 103, 108, 101>>, <<68>>,   \* "NewOrderSingle", "D"
                                <<Member("Field", NameSymbol, TRUE, <<>>),
                                  Member("Component", NameParties, TRUE, <<>>)>>)},
     components |-> {[name    |-> NameParties,
                      members |-> <<Member("Group", NameNoPartyIDs, FALSE,
                                           <<Member("Field", NamePartyID, TRUE, <<>>),
                                             Member("Field", NamePartyIDSource, TRUE,
                                                    <<>>),
                                             Member("Field", NamePartyRole, TRUE,
                                                    <<>>)>>)>>]}]

\* The members of the component Parties of kFix42WithComponentAndGroup.
PartiesMembers ==
    <<Member("Group", NameNoPartyIDs, FALSE,
             <<Member("Field", NamePartyID, TRUE, <<>>),
               Member("Field", NamePartyIDSource, TRUE, <<>>),
               Member("Field", NamePartyRole, TRUE, <<>>)>>)>>

NameText         == <<84, 101, 120, 116>>   \* "Text"
NamePartiesBlock == <<80, 97, 114, 116, 105, 101, 115, 66, 108, 111, 99, 107>>   \* "PartiesBlock"

\* A dictionary with an optional field before a required one and a
\* component made of a component, loaded under begin_string.
QuoteDictionary(begin_string) ==
    [begin_string |-> begin_string,
     fields     |-> GroupDictionary(begin_string).fields
                    \cup {FieldDef(58, NameText, TypeString)},
     messages   |-> {MessageDef(<<81, 117, 111, 116, 101>>, <<83>>,   \* "Quote", "S"
                                <<Member("Field", NameText, FALSE, <<>>),
                                  Member("Field", NameSymbol, TRUE, <<>>),
                                  Member("Component", NamePartiesBlock, FALSE,
                                         <<>>)>>)},
     components |-> {[name |-> NameParties, members |-> PartiesMembers],
                     [name    |-> NamePartiesBlock,
                      members |-> <<Member("Component", NameParties, FALSE,
                                           <<>>)>>]}]

NameInstrument == <<73, 110, 115, 116, 114, 117, 109, 101, 110, 116>>   \* "Instrument"
NameUnderlying == <<85, 110, 100, 101, 114, 108, 121, 105, 110, 103, 73, 110, 115, 116, 114, 117, 109, 101, 110, 116>>   \* "UnderlyingInstrument"
NameLegs       == <<76, 101, 103, 115>>   \* "Legs"

\* A dictionary whose components come back to themselves: Instrument is made
\* of UnderlyingInstrument, which starts with Instrument, and Legs ends
\* with Legs after a field of its own.  The loader takes the members of a
\* component as they are written and looks no component up.
LoopDictionary(begin_string) ==
    [begin_string |-> begin_string,
     fields     |-> GroupDictionary(begin_string).fields
                    \cup {FieldDef(58, NameText, TypeString)},
     messages   |-> {MessageDef(<<78, 101, 119, 79, 114, 100, 101, 114, 83, 105, 110, 103, 108, 101>>, <<68>>,   \* "NewOrderSingle", "D"
                                <<Member("Field", NameSymbol, TRUE, <<>>),
                                  Member("Component", NameInstrument, FALSE,
                                         <<>>)>>),
                     MessageDef(<<81, 117, 111, 116, 101>>, <<83>>,   \* "Quote", "S"
                                <<Member("Field", NameSymbol, TRUE, <<>>),
                                  Member("Component", NameLegs, FALSE, <<>>)>>)},
     components |-> {[name    |-> NameInstrument,
                      members |-> <<Member("Component", NameUnderlying, FALSE,
                                           <<>>)>>],
                     [name    |-> NameUnderlying,
                      members |-> <<Member("Component", NameInstrument, FALSE,
                                           <<>>),
                                    Member("Field", NameSymbol, FALSE, <<>>)>>],
                     [name    |-> NameLegs,
                      members |-> <<Member("Field", NameText, TRUE, <<>>),
                                    Member("Component", NameLegs, FALSE,
                                           <<>>)>>]}]

\* The one element of a set of at most one element, as a pointer.
PointerTo(found) == IF found = {} THEN <<>> ELSE <<CHOOSE x \in found : TRUE>>

\* Dictionary::fieldByNumber
fieldByNumber(dict, number) == PointerTo({def \in dict.fields : def.number = number})

\* Dictionary::fieldByName
fieldByName(dict, name) == PointerTo({def \in dict.fields : def.name = name})

\* Dictionary::messageByType
messageByType(dict, msg_type) ==
    PointerTo({def \in dict.messages : def.msg_type = msg_type})

\* Dictionary::componentByName: a pointer to the component's members.
componentByName(dict, name) ==
    PointerTo({c.members : c \in {x \in dict.components : x.name = name}})

\* DictionarySet::findByBeginString
findByBeginString(dictionaries, begin_string) ==
    PointerTo({dict \in dictionaries : dict.begin_string = begin_string})

\* ------------------------------------------------------ Decoder: typed values

\* std::toupper in the "C" locale, over every byte.
toUpperCopy(value) ==
    [i \in 1..Len(value) |-> IF value[i] >= 97 /\ value[i] <= 122
                             THEN value[i] - 32 ELSE value[i]]

\* The alternatives of DecodedValue.  Numbers are kept as their text, since
\* a std::int64_t or a double does not fit a number of the model.
Monostate == [kind |-> "monostate"]

Int64Max == <<57, 50, 50, 51, 51, 55, 50, 48, 51, 54, 56, 53, 52, 55, 55, 53, 56, 48, 55>>   \* "9223372036854775807"
Int64Min == <<57, 50, 50, 51, 51, 55, 50, 48, 51, 54, 56, 53, 52, 55, 55, 53, 56, 48, 56>>   \* "9223372036854775808"

RECURSIVE StripZeros(_)
StripZeros(digits) ==
    IF Len(digits) > 0 /\ digits[1] = Ch0 THEN StripZeros(Tail(digits)) ELSE digits

\* a <= b for digit strings of one length.
DigitsLe(a, b) ==
    \/ a = b
    \/ \E i \in 1..Len(a) : a[i] < b[i] /\ \A j \in 1..(i - 1) : a[j] = b[j]

\* std::from_chars into a std::int64_t with the test of the call site: an
\* optional '-', digits up to the end, and a value in range.
DecodeInt(value) ==
    LET minus     == Len(value) > 0 /\ value[1] = ChMinus
        digits    == IF minus THEN Tail(value) ELSE value
        magnitude == StripZeros(digits)
        limit     == IF minus THEN Int64Min ELSE Int64Max
    IN  IF /\ Len(digits) > 0
           /\ \A i \in 1..Len(digits) : IsDigit(digits[i])
           /\ \/ Len(magnitude) < Len(limit)
              \/ Len(magnitude) = Len(limit) /\ DigitsLe(magnitude, limit)
        THEN [kind     |-> "int64",
              negative |-> minus /\ magnitude # <<>>,
              digits   |-> IF magnitude = <<>> THEN <<Ch0>> ELSE magnitude]
        ELSE Monostate

\* The length of the longest run of digits of value from index i.
RECURSIVE DigitRun(_, _)
DigitRun(value, i) ==
    IF i <= Len(value) /\ IsDigit(value[i]) THEN 1 + DigitRun(value, i + 1) ELSE 0

\* std::from_chars into a float or a double (chars_format::general) consumes
\* the whole of value: an optional '-', then digits with an optional '.' and
\* at least one digit on one side of it, then an optional exponent of 'e' or
\* 'E', an optional sign and digits.  The explored values are within the
\* range of a float, and none spells inf or nan.
IsFloatingText(value) ==
    LET minus    == Len(value) > 0 /\ value[1] = ChMinus
        first    == IF minus THEN 2 ELSE 1
        whole    == DigitRun(value, first)
        dot      == first + whole
        has_dot  == dot <= Len(value) /\ value[dot] = 46
        fraction == IF has_dot THEN DigitRun(value, dot + 1) ELSE 0
        exp      == IF has_dot THEN dot + 1 + fraction ELSE dot
        has_exp  == exp <= Len(value) /\ value[exp] \in {69, 101}
        sign     == exp + 1 <= Len(value) /\ value[exp + 1] \in {43, ChMinus}
        exp_from == IF sign THEN exp + 2 ELSE exp + 1
        exp_run  == DigitRun(value, exp_from)
    IN  /\ whole + fraction > 0
        /\ IF has_exp THEN exp_run > 0 /\ exp_from + exp_run = Len(value) + 1
                      ELSE exp = Len(value) + 1

\* The value decoders: those the constructor registers, and one a caller
\* registers (IsEmptyDecoder: whether the value is empty, as a bool).
ApplyDecoder(decoder, value) ==
    CASE decoder = "BOOLEAN" ->
             IF value \in {<<89>>, <<121>>, <<49>>, <<84, 82, 85, 69>>, <<116, 114, 117, 101>>}   \* "Y", "y", "1", "TRUE", "true"
             THEN [kind |-> "bool", value |-> TRUE]
             ELSE IF value \in {<<78>>, <<110>>, <<48>>, <<70, 65, 76, 83, 69>>, <<102, 97, 108, 115, 101>>}   \* "N", "n", "0", "FALSE", "false"
             THEN [kind |-> "bool", value |-> FALSE]
             ELSE Monostate
      [] decoder = "INT" -> DecodeInt(value)
      [] decoder = "FLOAT" ->
             IF IsFloatingText(value) THEN [kind |-> "float", text |-> value]
             ELSE Monostate
      [] decoder = "DOUBLE" ->
             IF IsFloatingText(value) THEN [kind |-> "double", text |-> value]
             ELSE Monostate
      [] decoder = "STRING" -> [kind |-> "string_view", text |-> value]
      [] decoder = "IsEmptyDecoder" -> [kind |-> "bool", value |-> value = <<>>]

\* ------------------------------------------------------------- Decoder: state

\* The type names the constructor registers, each with its decoder.
IntTypes    == {TypeInt, <<78, 85, 77, 73, 78, 71, 82, 79, 85, 80>>, <<83, 69, 81, 78, 85, 77>>, <<76, 69, 78, 71, 84, 72>>}   \* "NUMINGROUP", "SEQNUM", "LENGTH"
DoubleTypes == {<<68, 79, 85, 66, 76, 69>>, <<65, 77, 84>>, <<80, 82, 73, 67, 69>>, <<80, 82, 73, 67, 69, 79, 70, 70, 83, 69, 84>>, <<80, 69, 82, 67, 69, 78, 84, 65, 71, 69>>, <<81, 84, 89>>}   \* "DOUBLE", "AMT", "PRICE", "PRICEOFFSET", "PERCENTAGE", "QTY"
StringTypes ==
    {TypeString, <<67, 72, 65, 82>>, <<77, 85, 76, 84, 73, 80, 76, 69, 67, 72, 65, 82, 86, 65, 76, 85, 69>>, <<77, 85, 76, 84, 73, 80, 76, 69, 83, 84, 82, 73, 78, 71, 86, 65, 76, 85, 69>>,   \* "CHAR", "MULTIPLECHARVALUE", "MULTIPLESTRINGVALUE"
     <<69, 88, 67, 72, 65, 78, 71, 69>>, <<67, 85, 82, 82, 69, 78, 67, 89>>, <<85, 84, 67, 84, 73, 77, 69, 83, 84, 65, 77, 80>>, <<85, 84, 67, 84, 73, 77, 69, 79, 78, 76, 89>>, <<85, 84, 67, 68, 65, 84, 69, 79, 78, 76, 89>>,   \* "EXCHANGE", "CURRENCY", "UTCTIMESTAMP", "UTCTIMEONLY", "UTCDATEONLY"
     <<76, 79, 67, 65, 76, 77, 75, 84, 68, 65, 84, 69>>, <<77, 79, 78, 84, 72, 89, 69, 65, 82>>, <<68, 65, 89, 79, 70, 77, 79, 78, 84, 72>>, <<68, 65, 84, 65>>, <<67, 79, 85, 78, 84, 82, 89>>,   \* "LOCALMKTDATE", "MONTHYEAR", "DAYOFMONTH", "DATA", "COUNTRY"
     <<76, 65, 78, 71, 85, 65, 71, 69>>}   \* "LANGUAGE"

RegisteredByConstructor ==
    [type \in {<<66, 79, 79, 76, 69, 65, 78>>, <<70, 76, 79, 65, 84>>} \cup IntTypes \cup DoubleTypes \cup StringTypes |->   \* "BOOLEAN", "FLOAT"
        CASE type = <<66, 79, 79, 76, 69, 65, 78>> -> "BOOLEAN"   \* "BOOLEAN"
          [] type = <<70, 76, 79, 65, 84>> -> "FLOAT"   \* "FLOAT"
          [] type \in IntTypes -> "INT"
          [] type \in DoubleTypes -> "DOUBLE"
          [] OTHER -> "STRING"]

\* Decoder::Decoder, with the dictionaries loaded into it: the decoders by
\* type name, and copies of seven of them by decoder tag.
NewDecoder(dictionaries) ==
    [dictionaries_         |-> dictionaries,
     value_decoders_       |-> RegisteredByConstructor,
     decoder_tag_decoders_ |->
         [tag \in {"kBool", "kInt64", "kFloat", "kDouble", "kString",
                   "kGroupCount", "kRawData"} |->
             CASE tag = "kBool" -> RegisteredByConstructor[<<66, 79, 79, 76, 69, 65, 78>>]   \* "BOOLEAN"
               [] tag = "kInt64" -> RegisteredByConstructor[TypeInt]
               [] tag = "kFloat" -> RegisteredByConstructor[<<70, 76, 79, 65, 84>>]   \* "FLOAT"
               [] tag = "kDouble" -> RegisteredByConstructor[<<68, 79, 85, 66, 76, 69>>]   \* "DOUBLE"
               [] tag = "kString" -> RegisteredByConstructor[TypeString]
               [] tag = "kGroupCount" -> RegisteredByConstructor[TypeInt]
               [] tag = "kRawData" -> RegisteredByConstructor[TypeString]]]

\* std::map::insert_or_assign
InsertOrAssign(map, key, value) ==
    [k \in DOMAIN map \cup {key} |-> IF k = key THEN value ELSE map[k]]

\* Decoder::registerTypeDecoder
registerTypeDecoder(d, type_name, decoder) ==
    [d EXCEPT !.value_decoders_ =
                  InsertOrAssign(@, toUpperCopy(type_name), decoder)]

\* Decoder::decodeTypedValue(decoder_tag, begin, end)
decodeTypedValueByTag(d, decoder_tag, value) ==
    IF decoder_tag \in DOMAIN d.decoder_tag_decoders_
    THEN ApplyDecoder(d.decoder_tag_decoders_[decoder_tag], value)
    ELSE IF "kString" \in DOMAIN d.decoder_tag_decoders_
    THEN ApplyDecoder(d.decoder_tag_decoders_["kString"], value)
    ELSE Monostate

\* Decoder::decodeTypedValue(type, begin, end)
decodeTypedValueByType(d, type, value) ==
    LET key == toUpperCopy(type)
    IN  IF key \in DOMAIN d.value_decoders_
        THEN ApplyDecoder(d.value_decoders_[key], value)
        ELSE IF TypeString \in DOMAIN d.value_decoders_
        THEN ApplyDecoder(d.value_decoders_[TypeString], value)
        ELSE Monostate

\* generated::fixNN::decoderTagFor of the resolver named by a BeginString:
\* the decoder tag of the type the dictionary of that version gives the tag.
decoderTagFor(resolver, tag) ==
    CASE tag \in {34, 452} -> "kInt64"
      [] tag \in {38, 44} -> "kDouble"
      [] tag = 453 -> "kGroupCount"
      [] OTHER -> "kString"

\* Decoder::selectDictionary: the dictionary of the mapped ApplVerID when it
\* is loaded, else the dictionary of the last BeginString.
selectDictionary(d, message, fields) ==
    LET eights       == {i \in 1..Len(fields) : fields[i].tag = 8}
        begin_string == IF eights = {} THEN <<>>
                        ELSE ValueOf(message,
                                     fields[CHOOSE i \in eights :
                                                \A j \in eights : j <= i])
        appl_vers    == {i \in 1..Len(fields) :
                            /\ fields[i].tag = 1128
                            /\ ValueOf(message, fields[i]) # <<>>}
        appl_ver_id  == IF appl_vers = {} THEN <<>>
                        ELSE ValueOf(message,
                                     fields[CHOOSE i \in appl_vers :
                                                \A j \in appl_vers : i <= j])
        mapped       == findByBeginString(d.dictionaries_,
                            applicationVersionIdToBeginString(appl_ver_id))
    IN  IF appl_ver_id # <<>> /\ mapped # <<>> THEN mapped
        ELSE IF begin_string # <<>>
        THEN findByBeginString(d.dictionaries_, begin_string)
        ELSE <<>>

\* -------------------------------------------------------- Decoder: validation

RECURSIVE firstMemberTag(_, _)
RECURSIVE FirstMemberTagFrom(_, _, _)
RECURSIVE parseMemberForValidation(_, _, _, _, _, _)
RECURSIVE ParseMembersFrom(_, _, _, _, _, _, _)
RECURSIVE GroupEntries(_, _, _, _, _, _, _, _)
RECURSIVE FirstMemberTagUnbounded(_, _, _, _)

\* firstMemberTag(dict, member): an optional tag, <<>> being std::nullopt.
firstMemberTag(dict, member) ==
    IF member.kind \in {"Field", "Group"}
    THEN LET def == fieldByName(dict, member.name)
         IN  IF def # <<>> THEN <<def[1].number>> ELSE <<>>
    ELSE LET component_members == componentByName(dict, member.name)
         IN  IF component_members = <<>> THEN <<>>
             ELSE FirstMemberTagFrom(dict, component_members[1], 1)

\* The loop of firstMemberTag(dict, members) from the k-th member.
FirstMemberTagFrom(dict, members, k) ==
    IF k > Len(members) THEN <<>>
    ELSE LET tag == firstMemberTag(dict, members[k])
         IN  IF tag # <<>> THEN tag ELSE FirstMemberTagFrom(dict, members, k + 1)

firstMemberTagOfMembers(dict, members) == FirstMemberTagFrom(dict, members, 1)

\* Whether firstMemberTag(dict, members), from the k-th member on and with
\* the calls for the components named in entered still on the stack, never
\* returns: it does not when, before a member gives a tag, it comes to a
\* component whose own call is on the stack already, for the functions are
\* pure and nothing bounds the depth of their recursion.
FirstMemberTagUnbounded(dict, members, k, entered) ==
    IF k > Len(members) THEN FALSE
    ELSE LET member == members[k]
             component_members == componentByName(dict, member.name)
         IN  IF member.kind \in {"Field", "Group"}
             THEN /\ fieldByName(dict, member.name) = <<>>
                  /\ FirstMemberTagUnbounded(dict, members, k + 1, entered)
             ELSE IF component_members = <<>>
             THEN FirstMemberTagUnbounded(dict, members, k + 1, entered)
             ELSE IF member.name \in entered THEN TRUE
             ELSE IF FirstMemberTagUnbounded(dict, component_members[1], 1,
                                             entered \cup {member.name})
             THEN TRUE
             ELSE /\ firstMemberTagOfMembers(dict, component_members[1]) = <<>>
                  /\ FirstMemberTagUnbounded(dict, members, k + 1, entered)

\* firstMemberTag(dict, member) of a member that is a component never returns.
ComponentUnbounded(dict, member) ==
    /\ member.kind = "Component"
    /\ componentByName(dict, member.name) # <<>>
    /\ FirstMemberTagUnbounded(dict, <<member>>, 1, {})

\* The walk carries the index into the fields and the errors, both passed by
\* reference in the source, and a record of the members visited: for each,
\* the index before and after it, the errors it recorded itself and, for a
\* group, its actual_count and the fields each iteration of its loop
\* consumed.  No caller reads the bool the walk functions return.  overflow
\* tells that the walk came to a call of firstMemberTag that never returns:
\* nothing is visited after it.
NoEntries == [actual_count |-> 0, consumed |-> <<>>]

Visited(w, before, member, index, errors, entries) ==
    [index  |-> index,
     errors |-> w.errors \o errors,
     overflow |-> w.overflow,
     log    |-> Append(w.log, [kind     |-> member.kind,
                               name     |-> member.name,
                               required |-> member.required,
                               before   |-> before,
                               after    |-> index,
                               errors   |-> errors,
                               actual   |-> entries.actual_count,
                               consumed |-> entries.consumed])]

\* The texts of the validation errors.
MissingField(name) ==
    <<77, 105, 115, 115, 105, 110, 103, 32, 114, 101, 113, 117, 105, 114, 101, 100, 32, 102, 105, 101, 108, 100, 32, 39>>
        \o name \o <<39>>
    \* "Missing required field '" + name + "'"

MissingComponent(name) ==
    <<77, 105, 115, 115, 105, 110, 103, 32, 114, 101, 113, 117, 105, 114, 101, 100, 32, 99, 111, 109, 112, 111, 110, 101, 110, 116, 32, 39>>
        \o name \o <<39>>
    \* "Missing required component '" + name + "'"

MissingGroupCount(name) ==
    <<77, 105, 115, 115, 105, 110, 103, 32, 114, 101, 113, 117, 105, 114, 101, 100, 32, 103, 114, 111, 117, 112, 45, 99, 111, 117, 110, 116, 32, 102, 105, 101, 108, 100, 32, 39>>
        \o name \o <<39>>
    \* "Missing required group-count field '" + name + "'"

InvalidGroupCount(name) ==
    <<73, 110, 118, 97, 108, 105, 100, 32, 103, 114, 111, 117, 112, 45, 99, 111, 117, 110, 116, 32, 118, 97, 108, 117, 101, 32, 102, 111, 114, 32, 39>>
        \o name \o <<39>>
    \* "Invalid group-count value for '" + name + "'"

\* "Group '" + name + "' count mismatch: declared " + std::to_string(declared)
\* + ", actual " + std::to_string(actual)
CountMismatch(name, declared, actual) ==
    <<71, 114, 111, 117, 112, 32, 39>> \o name
    \o <<39, 32, 99, 111, 117, 110, 116, 32, 109, 105, 115, 109, 97, 116, 99, 104, 58, 32, 100, 101, 99, 108, 97, 114, 101, 100, 32>>
    \o IntToString(declared)
    \o <<44, 32, 97, 99, 116, 117, 97, 108, 32>> \o IntToString(actual)

\* fields[index].tag == number, with index < fields.size().
TagAt(fields, index, number) ==
    index < Len(fields) /\ fields[index + 1].tag = number

\* parseMemberForValidation, MemberKind::Field, reporting every member that
\* is missing.
parseFieldMember_ignoringRequired(dict, member, fields, w, enforce_presence) ==
    LET def == fieldByName(dict, member.name)
    IN  IF def = <<>> THEN Visited(w, w.index, member, w.index, <<>>, NoEntries)
        ELSE IF TagAt(fields, w.index, def[1].number)
        THEN Visited(w, w.index, member, w.index + 1, <<>>, NoEntries)
        ELSE IF enforce_presence
        THEN Visited(w, w.index, member, w.index,
                     <<MissingField(member.name)>>, NoEntries)
        ELSE Visited(w, w.index, member, w.index, <<>>, NoEntries)

\* parseMemberForValidation, MemberKind::Field
parseFieldMember(dict, member, fields, w, enforce_presence) ==
    LET def == fieldByName(dict, member.name)
    IN  IF def = <<>> THEN Visited(w, w.index, member, w.index, <<>>, NoEntries)
        ELSE IF TagAt(fields, w.index, def[1].number)
        THEN Visited(w, w.index, member, w.index + 1, <<>>, NoEntries)
        ELSE IF member.required /\ enforce_presence
        THEN Visited(w, w.index, member, w.index,
                     <<MissingField(member.name)>>, NoEntries)
        ELSE Visited(w, w.index, member, w.index, <<>>, NoEntries)

\* parseMemberForValidation, MemberKind::Component
parseComponentMember(dict, member, message, fields, w, enforce_presence) ==
    LET component_members == componentByName(dict, member.name)
        expected_tag == firstMemberTagOfMembers(dict, component_members[1])
        missing == IF member.required /\ enforce_presence
                   THEN <<MissingComponent(member.name)>>
                   ELSE <<>>
        inner == ParseMembersFrom(dict, component_members[1], 1, message, fields,
                                  w, TRUE)
    IN  IF component_members = <<>>
        THEN Visited(w, w.index, member, w.index, missing, NoEntries)
        ELSE IF ComponentUnbounded(dict, member)
        THEN [w EXCEPT !.overflow = TRUE]
        ELSE IF expected_tag # <<>> /\ ~TagAt(fields, w.index, expected_tag[1])
        THEN Visited(w, w.index, member, w.index, missing, NoEntries)
        ELSE Visited(inner, w.index, member, inner.index,
                     IF inner.index > w.index THEN <<>> ELSE missing, NoEntries)

\* The loop over the entries of a group from iteration i, where consumed
\* holds the number of fields each iteration before it consumed: the walk
\* and actual_count after the loop.
GroupEntries(dict, member, message, fields, w, i, declared_count, consumed) ==
    IF i >= declared_count
    THEN [w |-> w, actual_count |-> i, consumed |-> consumed]
    ELSE LET entry == ParseMembersFrom(dict, member.children, 1, message, fields,
                                       w, TRUE)
             all   == Append(consumed, entry.index - w.index)
         IN  IF entry.index = w.index \/ entry.overflow
             THEN [w |-> entry, actual_count |-> i, consumed |-> all]
             ELSE GroupEntries(dict, member, message, fields, entry, i + 1,
                               declared_count, all)

\* parseMemberForValidation, MemberKind::Group, leaving an invalid count
\* unconsumed.
parseGroupMember_keepingCount(dict, member, message, fields, w, enforce_presence) ==
    LET count_def == fieldByName(dict, member.name)
        declared_count == ParseInt(ValueOf(message, fields[w.index + 1]))
        entries == GroupEntries(dict, member, message, fields,
                                [w EXCEPT !.index = w.index + 1], 0,
                                declared_count.value, <<>>)
    IN  IF count_def = <<>> THEN Visited(w, w.index, member, w.index, <<>>, NoEntries)
        ELSE IF ~TagAt(fields, w.index, count_def[1].number)
        THEN Visited(w, w.index, member, w.index,
                     IF member.required /\ enforce_presence
                     THEN <<MissingGroupCount(member.name)>>
                     ELSE <<>>, NoEntries)
        ELSE IF ~declared_count.ok \/ declared_count.value < 0
        THEN Visited(w, w.index, member, w.index,
                     <<InvalidGroupCount(member.name)>>,
                     NoEntries)
        ELSE Visited(entries.w, w.index, member, entries.w.index,
                     IF entries.actual_count # declared_count.value
                     THEN <<CountMismatch(member.name, declared_count.value,
                                          entries.actual_count)>>
                     ELSE <<>>,
                     entries)

\* parseMemberForValidation, MemberKind::Group
parseGroupMember(dict, member, message, fields, w, enforce_presence) ==
    LET count_def == fieldByName(dict, member.name)
        declared_count == ParseInt(ValueOf(message, fields[w.index + 1]))
        entries == GroupEntries(dict, member, message, fields,
                                [w EXCEPT !.index = w.index + 1], 0,
                                declared_count.value, <<>>)
    IN  IF count_def = <<>> THEN Visited(w, w.index, member, w.index, <<>>, NoEntries)
        ELSE IF ~TagAt(fields, w.index, count_def[1].number)
        THEN Visited(w, w.index, member, w.index,
                     IF member.required /\ enforce_presence
                     THEN <<MissingGroupCount(member.name)>>
                     ELSE <<>>, NoEntries)
        ELSE IF ~declared_count.ok \/ declared_count.value < 0
        THEN Visited(w, w.index, member, w.index + 1,
                     <<InvalidGroupCount(member.name)>>,
                     NoEntries)
        ELSE Visited(entries.w, w.index, member, entries.w.index,
                     IF entries.actual_count # declared_count.value
                     THEN <<CountMismatch(member.name, declared_count.value,
                                          entries.actual_count)>>
                     ELSE <<>>,
                     entries)

\* parseMemberForValidation
parseMemberForValidation(dict, member, message, fields, w, enforce_presence) ==
    CASE member.kind = "Field" ->
             parseFieldMember(dict, member, fields, w, enforce_presence)
      [] member.kind = "Component" ->
             parseComponentMember(dict, member, message, fields, w,
                                  enforce_presence)
      [] member.kind = "Group" ->
             parseGroupMember(dict, member, message, fields, w, enforce_presence)

\* The loop of parseMembersForValidation from the k-th member.
ParseMembersFrom(dict, members, k, message, fields, w, enforce_presence) ==
    IF k > Len(members) \/ w.overflow THEN w
    ELSE ParseMembersFrom(dict, members, k + 1, message, fields,
                          parseMemberForValidation(dict, members[k], message,
                                                   fields, w, enforce_presence),
                          enforce_presence)

parseMembersForValidation(dict, members, message, fields, w, enforce_presence) ==
    ParseMembersFrom(dict, members, 1, message, fields, w, enforce_presence)

\* The index validateStructure starts the walk at: that of the first field
\* carrying the first member tag of the definition, else that of the first
\* field carrying the first tag of any member, else the number of fields.
StartIndex(dict, members, fields) ==
    LET start_tag  == firstMemberTagOfMembers(dict, members)
        at_start   == {i \in 0..(Len(fields) - 1) :
                          start_tag # <<>> /\ fields[i + 1].tag = start_tag[1]}
        at_member  == {i \in 0..(Len(fields) - 1) :
                          \E k \in 1..Len(members) :
                              LET member_tag == firstMemberTag(dict, members[k])
                              IN  /\ member_tag # <<>>
                                  /\ fields[i + 1].tag = member_tag[1]}
        First(set) == CHOOSE i \in set : \A j \in set : i <= j
    IN  IF at_start # {} THEN First(at_start)
        ELSE IF at_member # {} THEN First(at_member)
        ELSE Len(fields)

\* validateStructure: the walk it ran, with the errors it returns.  A
\* member whose firstMemberTag never returns is come to while the start of
\* the walk is looked for or, at the latest, when the walk visits it, and
\* the walk visits every member of the message.
validateStructure(dict, msg_type, message, fields) ==
    LET message_def == messageByType(dict, msg_type)
        none == [index |-> 0, errors |-> <<>>, overflow |-> FALSE, log |-> <<>>]
    IN  IF msg_type = <<>> \/ message_def = <<>> THEN none
        ELSE IF \E k \in 1..Len(message_def[1].members) :
                    ComponentUnbounded(dict, message_def[1].members[k])
        THEN [none EXCEPT !.overflow = TRUE]
        ELSE parseMembersForValidation(
                 dict, message_def[1].members, message, fields,
                 [none EXCEPT !.index = StartIndex(dict, message_def[1].members,
                                                   fields)],
                 TRUE)

\* ------------------------------------------------------------ Decoder: decode

\* The value of the last of the fields with the tag, or the empty string.
LastValue(message, fields, tag) ==
    LET at == {i \in 1..Len(fields) : fields[i].tag = tag}
    IN  IF at = {} THEN <<>>
        ELSE ValueOf(message, fields[CHOOSE i \in at : \A j \in at : j <= i])

\* The value of the first of the fields with the tag whose value is not
\* empty, or the empty string.
FirstValue(message, fields, tag) ==
    LET at == {i \in 1..Len(fields) :
                  fields[i].tag = tag /\ ValueOf(message, fields[i]) # <<>>}
    IN  IF at = {} THEN <<>>
        ELSE ValueOf(message, fields[CHOOSE i \in at : \A j \in at : i <= j])

\* The end of decode and of decodeObject: with a dictionary, the errors
\* of validateStructure and whether there are none; without one, the
\* defaults of the result.  log is the walk that was run.
Validated_staleFlag(dict, msg_type, message, fields) ==
    LET walk == validateStructure(dict[1], msg_type, message, fields)
    IN  IF dict = <<>>
        THEN [structurally_valid |-> TRUE, validation_errors |-> <<>>,
              overflow |-> FALSE, log |-> <<>>]
        ELSE [structurally_valid |-> TRUE,
              validation_errors  |-> walk.errors,
              overflow           |-> walk.overflow,
              log                |-> walk.log]

Validated(dict, msg_type, message, fields) ==
    LET walk == validateStructure(dict[1], msg_type, message, fields)
    IN  IF dict = <<>>
        THEN [structurally_valid |-> TRUE, validation_errors |-> <<>>,
              overflow |-> FALSE, log |-> <<>>]
        ELSE [structurally_valid |-> walk.errors = <<>>,
              validation_errors  |-> walk.errors,
              overflow           |-> walk.overflow,
              log                |-> walk.log]

\* The DecodedField Decoder::decode makes of a ParsedField.  Its value is the
\* slice [value_begin, value_end) of normalized_message.
DecodeField(d, message, version_decoder, dict, parsed) ==
    LET def  == IF dict = <<>> THEN <<>> ELSE fieldByNumber(dict[1], parsed.tag)
        type == IF def = <<>> THEN <<>> ELSE def[1].type
    IN  [tag         |-> parsed.tag,
         name        |-> IF def = <<>> THEN <<>> ELSE def[1].name,
         type        |-> type,
         value_begin |-> parsed.value_begin,
         value_end   |-> parsed.value_end,
         typed_value |->
             IF version_decoder.resolver # <<>>
             THEN decodeTypedValueByTag(
                      d, decoderTagFor(version_decoder.resolver, parsed.tag),
                      ValueOf(message, parsed))
             ELSE decodeTypedValueByType(d, type, ValueOf(message, parsed))]

\* Decoder::decode once the message is normalized and split: message is
\* decoded.normalized_message, and fields and version_decoder are its locals.
DecodeParsed(d, message, fields, version_decoder) ==
    LET dict     == selectDictionary(d, message, fields)
        msg_type == LastValue(message, fields, 35)
        outcome  == Validated(dict, msg_type, message, fields)
    IN  [decoded |->
             [normalized_message |-> message,
              begin_string       |-> LastValue(message, fields, 8),
              msg_type           |-> msg_type,
              fields             |->
                  [i \in 1..Len(fields) |->
                      DecodeField(d, message, version_decoder, dict, fields[i])],
              structurally_valid |-> outcome.structurally_valid,
              validation_errors  |-> outcome.validation_errors],
         overflow |-> outcome.overflow,
         log |-> outcome.log]

\* Decoder::decode: the DecodedMessage, and the walk of its validation.
decode(d, raw) ==
    DecodeParsed(d, normalizeMessage(raw), splitTags(normalizeMessage(raw)),
                 selectVersionDecoder(normalizeMessage(raw)))

\* The DecodedObjectNode Decoder::decodeObject makes of a ParsedField.
DecodeNode(d, message, version_decoder, parsed) ==
    [value    |-> IF version_decoder.resolver # <<>>
                  THEN decodeTypedValueByTag(
                           d, decoderTagFor(version_decoder.resolver, parsed.tag),
                           ValueOf(message, parsed))
                  ELSE decodeTypedValueByType(d, TypeString,
                                              ValueOf(message, parsed)),
     children |-> <<>>]

\* Decoder::decodeObject once the message is normalized and split: message
\* is decoded.normalized_message, and fields and version_decoder are its
\* locals.  The map fields is a function of the tags; try_emplace keeps the
\* node of the first field with a tag.
DecodeObjectParsed(d, message, fields, version_decoder) ==
    LET dict       == selectDictionary(d, message, fields)
        msg_type   == FirstValue(message, fields, 35)
        outcome    == Validated(dict, msg_type, message, fields)
        First(tag) == CHOOSE i \in 1..Len(fields) :
                          /\ fields[i].tag = tag
                          /\ \A j \in 1..(i - 1) : fields[j].tag # tag
    IN  [decoded |->
             [normalized_message |-> message,
              begin_string       |-> IF version_decoder.begin_string # <<>>
                                     THEN version_decoder.begin_string
                                     ELSE FirstValue(message, fields, 8),
              msg_type           |-> msg_type,
              fields             |->
                  [tag \in {fields[i].tag : i \in 1..Len(fields)} |->
                      DecodeNode(d, message, version_decoder, fields[First(tag)])],
              structurally_valid |-> outcome.structurally_valid,
              validation_errors  |-> outcome.validation_errors],
         overflow |-> outcome.overflow,
         log |-> outcome.log]

\* Decoder::decodeObject: the DecodedObject, and the walk of its validation.
decodeObject(d, raw) ==
    DecodeObjectParsed(d, normalizeMessage(raw),
                       splitTags(normalizeMessage(raw)),
                       selectVersionDecoder(normalizeMessage(raw)))

\* ------------------------------------------------------------ Decoder: lookup

\* A pointer to a node of an object is the path of tags leading to it from
\* the root map; <<>> is nullptr.  A map without entries is <<>>.
HasKey(map, tag) == map # <<>> /\ tag \in DOMAIN map

RECURSIVE NodeAt(_, _)
NodeAt(map, path) ==
    IF Len(path) = 1 THEN map[path[1]]
    ELSE NodeAt(map[path[1]].children, Tail(path))

\* DecodedObject::operator[]
ObjectLookup(obj, tag) ==
    [root_ |-> TRUE, node_ |-> IF HasKey(obj.fields, tag) THEN <<tag>> ELSE <<>>]

\* DecodedObjectLookup::operator[] without the lookup in the root.
LookupChild_withoutFallback(obj, handle, tag) ==
    IF handle.node_ # <<>> /\ HasKey(NodeAt(obj.fields, handle.node_).children, tag)
    THEN [root_ |-> handle.root_, node_ |-> Append(handle.node_, tag)]
    ELSE [root_ |-> handle.root_, node_ |-> <<>>]

\* DecodedObjectLookup::operator[], on a handle into obj
LookupChild(obj, handle, tag) ==
    IF handle.node_ # <<>> /\ HasKey(NodeAt(obj.fields, handle.node_).children, tag)
    THEN [root_ |-> handle.root_, node_ |-> Append(handle.node_, tag)]
    ELSE IF ~handle.root_ THEN [root_ |-> FALSE, node_ |-> <<>>]
    ELSE IF ~HasKey(obj.fields, tag) THEN [root_ |-> handle.root_, node_ |-> <<>>]
    ELSE [root_ |-> handle.root_, node_ |-> <<tag>>]

\* DecodedObjectLookup::exists
exists(handle) == handle.node_ # <<>>

\* DecodedObjectLookup::value
LookupValue(obj, handle) ==
    IF handle.node_ = <<>> THEN Monostate ELSE NodeAt(obj.fields, handle.node_).value

\* ------------------------- SpecDecode: one decoder, any message and dictionary

CustomBegin == <<70, 73, 88, 46, 57, 46, 57>>   \* "FIX.9.9"

\* The sets of dictionaries a decoder may have loaded: none, each dictionary
\* of the decoder tests as FIX.4.2, one under a BeginString that has no
\* generated decoder map, the dictionary of quotes, and the dictionary whose
\* components come back to themselves.
DictionarySets ==
    {{}, {MinimalDictionary(Fix42)}, {GroupDictionary(Fix42)},
     {GroupDictionary(Fix42), MinimalDictionary(Fix50)},
     {GroupDictionary(CustomBegin)}, {QuoteDictionary(Fix43)},
     {LoopDictionary(Fix41)}}

\* An order of the decoder tests up to its group count, and its party
\* entries.
OrderHead  == <<56, 61, 70, 73, 88, 46, 52, 46, 50, 124, 51, 53, 61, 68, 124, 53, 53, 61, 73, 66, 77, 124, 52, 53, 51, 61>>   \* "8=FIX.4.2|35=D|55=IBM|453="
PartyOne   == <<52, 52, 56, 61, 80, 65, 82, 84, 89, 49, 124, 52, 52, 55, 61, 68, 124, 52, 53, 50, 61, 49, 124>>   \* "448=PARTY1|447=D|452=1|"
PartyTwo   == <<52, 52, 56, 61, 80, 65, 82, 84, 89, 50, 124, 52, 52, 55, 61, 68, 124, 52, 53, 50, 61, 51, 124>>   \* "448=PARTY2|447=D|452=3|"
PartyShort == <<52, 52, 56, 61, 80, 65, 82, 84, 89, 50, 124, 52, 52, 55, 61, 68, 124>>   \* "448=PARTY2|447=D|"

PipedMessages ==
    {<<>>,
     \* "8=FIX.4.2|35=T|55=IBM|"
     <<56, 61, 70, 73, 88, 46, 52, 46, 50, 124, 51, 53, 61, 84, 124, 53, 53,
       61, 73, 66, 77, 124>>,
     \* "8=FIX.4.2|35=T|55=IBM"
     <<56, 61, 70, 73, 88, 46, 52, 46, 50, 124, 51, 53, 61, 84, 124, 53, 53,
       61, 73, 66, 77>>,
     \* "8=FIX.4.2|35=T|"
     <<56, 61, 70, 73, 88, 46, 52, 46, 50, 124, 51, 53, 61, 84, 124>>,
     \* "8=FIX.4.2|35=Z|55=IBM|"
     <<56, 61, 70, 73, 88, 46, 52, 46, 50, 124, 51, 53, 61, 90, 124, 53, 53,
       61, 73, 66, 77, 124>>,
     \* "8=FIX.4.2|35=T|55=IBM|55=MSFT|"
     <<56, 61, 70, 73, 88, 46, 52, 46, 50, 124, 51, 53, 61, 84, 124, 53, 53,
       61, 73, 66, 77, 124, 53, 53, 61, 77, 83, 70, 84, 124>>,
     \* "8=FIX.4.2|8=FIX.4.4|35=T|35=D|55=IBM|"
     <<56, 61, 70, 73, 88, 46, 52, 46, 50, 124, 56, 61, 70, 73, 88, 46, 52,
       46, 52, 124, 51, 53, 61, 84, 124, 51, 53, 61, 68, 124, 53, 53, 61, 73,
       66, 77, 124>>,
     \* "8=FIX.4.2|junk|35=T|=x|0=y|-5=z|055=IBM|5a=b|"
     <<56, 61, 70, 73, 88, 46, 52, 46, 50, 124, 106, 117, 110, 107, 124, 51,
       53, 61, 84, 124, 61, 120, 124, 48, 61, 121, 124, 45, 53, 61, 122, 124,
       48, 53, 53, 61, 73, 66, 77, 124, 53, 97, 61, 98, 124>>,
     \* "8=FIX.4.2|35=T|2147483648=x|55=IBM|"
     <<56, 61, 70, 73, 88, 46, 52, 46, 50, 124, 51, 53, 61, 84, 124, 50, 49,
       52, 55, 52, 56, 51, 54, 52, 56, 61, 120, 124, 53, 53, 61, 73, 66, 77,
       124>>,
     \* "8=FIX.4.2|35=T|55=IBM|34=12|38=100|44=123.45|452=x|"
     <<56, 61, 70, 73, 88, 46, 52, 46, 50, 124, 51, 53, 61, 84, 124, 53, 53,
       61, 73, 66, 77, 124, 51, 52, 61, 49, 50, 124, 51, 56, 61, 49, 48, 48,
       124, 52, 52, 61, 49, 50, 51, 46, 52, 53, 124, 52, 53, 50, 61, 120,
       124>>,
     \* "8=FIX.4.2|1128=9|35=T|55=IBM|"
     <<56, 61, 70, 73, 88, 46, 52, 46, 50, 124, 49, 49, 50, 56, 61, 57, 124,
       51, 53, 61, 84, 124, 53, 53, 61, 73, 66, 77, 124>>,
     \* "8=FIXT.1.1|1128=4|35=D|55=IBM|"
     <<56, 61, 70, 73, 88, 84, 46, 49, 46, 49, 124, 49, 49, 50, 56, 61, 52,
       124, 51, 53, 61, 68, 124, 53, 53, 61, 73, 66, 77, 124>>,
     \* "8=FIXT.1.1|1128=X|35=T|55=IBM|"
     <<56, 61, 70, 73, 88, 84, 46, 49, 46, 49, 124, 49, 49, 50, 56, 61, 88,
       124, 51, 53, 61, 84, 124, 53, 53, 61, 73, 66, 77, 124>>,
     \* "8=FIX.9.9|35=D|55=IBM|453=1|448=P|447=D|452=7|"
     <<56, 61, 70, 73, 88, 46, 57, 46, 57, 124, 51, 53, 61, 68, 124, 53, 53,
       61, 73, 66, 77, 124, 52, 53, 51, 61, 49, 124, 52, 52, 56, 61, 80, 124,
       52, 52, 55, 61, 68, 124, 52, 53, 50, 61, 55, 124>>,
     \* "35=T|55=IBM|"
     <<51, 53, 61, 84, 124, 53, 53, 61, 73, 66, 77, 124>>,
     \* "8=FIX.4.2|35=D|55=IBM|"
     <<56, 61, 70, 73, 88, 46, 52, 46, 50, 124, 51, 53, 61, 68, 124, 53, 53,
       61, 73, 66, 77, 124>>,
     \* "8=FIX.4.3|35=S|58=hi|55=IBM|"
     <<56, 61, 70, 73, 88, 46, 52, 46, 51, 124, 51, 53, 61, 83, 124, 53, 56,
       61, 104, 105, 124, 53, 53, 61, 73, 66, 77, 124>>,
     \* "8=FIX.4.3|35=S|55=IBM|"
     <<56, 61, 70, 73, 88, 46, 52, 46, 51, 124, 51, 53, 61, 83, 124, 53, 53,
       61, 73, 66, 77, 124>>,
     \* "8=FIX.4.3|35=S|55=IBM|58=hi|"
     <<56, 61, 70, 73, 88, 46, 52, 46, 51, 124, 51, 53, 61, 83, 124, 53, 53,
       61, 73, 66, 77, 124, 53, 56, 61, 104, 105, 124>>,
     \* "8=FIX.4.3|35=S|"
     <<56, 61, 70, 73, 88, 46, 52, 46, 51, 124, 51, 53, 61, 83, 124>>,
     \* "8=FIX.4.3|35=S|58=hi|"
     <<56, 61, 70, 73, 88, 46, 52, 46, 51, 124, 51, 53, 61, 83, 124, 53, 56,
       61, 104, 105, 124>>,
     \* "8=FIX.4.3|35=S|58=hi|55=IBM|453=1|448=P|447=D|452=7|"
     <<56, 61, 70, 73, 88, 46, 52, 46, 51, 124, 51, 53, 61, 83, 124, 53, 56,
       61, 104, 105, 124, 53, 53, 61, 73, 66, 77, 124, 52, 53, 51, 61, 49,
       124, 52, 52, 56, 61, 80, 124, 52, 52, 55, 61, 68, 124, 52, 53, 50, 61,
       55, 124>>,
     \* "8=FIX.4.1|35=D|55=IBM|"
     <<56, 61, 70, 73, 88, 46, 52, 46, 49, 124, 51, 53, 61, 68, 124, 53, 53, 61, 73, 66, 77, 124>>,
     \* "8=FIX.4.1|35=S|55=IBM|58=a|58=b|"
     <<56, 61, 70, 73, 88, 46, 52, 46, 49, 124, 51, 53, 61, 83, 124, 53, 53, 61, 73, 66, 77, 124, 53, 56, 61, 97, 124, 53, 56, 61, 98, 124>>,
     OrderHead \o <<50, 124>> \o PartyOne \o PartyTwo,   \* "2|"
     OrderHead \o <<50, 124>> \o PartyOne \o PartyShort,   \* "2|"
     OrderHead \o <<50, 124>> \o PartyOne,   \* "2|"
     OrderHead \o <<49, 124>> \o PartyOne \o PartyTwo,   \* "1|"
     OrderHead \o <<51, 124>> \o PartyOne \o PartyTwo,   \* "3|"
     OrderHead \o <<48, 124>>,   \* "0|"
     OrderHead \o <<48, 124>> \o PartyOne,   \* "0|"
     OrderHead \o <<120, 124>> \o PartyOne,   \* "x|"
     OrderHead \o <<45, 49, 124>> \o PartyOne,   \* "-1|"
     OrderHead \o <<124>> \o PartyOne,   \* "|"
     \* "8=FIX.4.2|35=D|453=1|" + PartyOne + "55=IBM|"
     <<56, 61, 70, 73, 88, 46, 52, 46, 50, 124, 51, 53, 61, 68, 124, 52, 53, 51, 61, 49, 124>> \o PartyOne
         \o <<53, 53, 61, 73, 66, 77, 124>>}

\* The messages handed to the decoder: '|'-separated, SOH-separated, and
\* one that carries both.
RawMessages ==
    PipedMessages \cup {normalize(raw) : raw \in PipedMessages}
    \cup {normalize(<<56, 61, 70, 73, 88, 46, 52, 46, 50, 124>>) \o <<51, 53, 61, 84, 124, 53, 53, 61, 73, 66, 77, 124>>}   \* "8=FIX.4.2|", "35=T|55=IBM|"

\* What a caller registers: a decoder of its own, under a type name in any
\* letter case.
RegisteredTypeNames == {<<105, 110, 116>>, <<83, 116, 114, 105, 110, 103>>, <<80, 82, 73, 67, 69>>}   \* "int", "String", "PRICE"

InitDecode ==
    /\ \E dictionaries \in DictionarySets :
          ctl = [i \in {"decoder"} |-> NewDecoder(dictionaries)]
    /\ call = NoCall
    /\ ret = <<>>
    /\ chan = <<>>
    /\ pending = <<>>
    /\ sent = <<>>
    /\ emitted = <<>>

\* The caller sees op(arg) on the decoder return retval, leaving it as d.
DecoderReturns(op, arg, d, log, retval) ==
    /\ ctl' = [ctl EXCEPT !["decoder"] = d]
    /\ call' = [op |-> op, self |-> "decoder", pre |-> ctl["decoder"],
                arg |-> arg, log |-> log]
    /\ ret' = retval
    /\ UNCHANGED <<chan, pending, sent, emitted>>

\* The caller never sees op(arg) return: the recursion of firstMemberTag has
\* no end, and the process runs out of stack or runs on.
DecoderNeverReturns(op, arg) ==
    /\ call' = [op |-> "never returns", self |-> "decoder",
                pre |-> ctl["decoder"], arg |-> [op |-> op, raw |-> arg],
                log |-> <<>>]
    /\ ret' = <<>>
    /\ UNCHANGED <<ctl, chan, pending, sent, emitted>>

Normalize ==
    /\ Idle
    /\ \E message \in RawMessages :
          DecoderReturns("normalize", message, ctl["decoder"], <<>>,
                         normalize(message))

NormalizeMessage ==
    /\ Idle
    /\ \E raw \in RawMessages :
          DecoderReturns("normalizeMessage", raw, ctl["decoder"], <<>>,
                         normalizeMessage(raw))

Decode ==
    /\ Idle
    /\ \E raw \in RawMessages :
          \E r \in {decode(ctl["decoder"], raw)} :
              IF r.overflow THEN DecoderNeverReturns("decode", raw)
              ELSE DecoderReturns("decode", raw, ctl["decoder"], r.log,
                                  r.decoded)

DecodeObject ==
    /\ Idle
    /\ \E raw \in RawMessages :
          \E r \in {decodeObject(ctl["decoder"], raw)} :
              IF r.overflow THEN DecoderNeverReturns("decodeObject", raw)
              ELSE DecoderReturns("decodeObject", raw, ctl["decoder"], r.log,
                                  r.decoded)

\* The objects a caller looks tags up in: what decodeObject returns, and an
\* object whose node 35 a caller has given a child 55.
LookupTags == {8, 35, 55, 58}

QuoteObject ==
    decodeObject(NewDecoder({}),
                 <<56, 61, 70, 73, 88, 46, 52, 46, 51, 124, 51, 53, 61, 83, 124, 53, 56, 61, 104, 105, 124, 53, 53, 61, 73, 66, 77, 124>>).decoded
    \* "8=FIX.4.3|35=S|58=hi|55=IBM|"

NestedObject ==
    [QuoteObject EXCEPT
        !.fields[35].children =
            [tag \in {55} |->
                [value    |-> [kind |-> "string_view",
                              text |-> <<77, 83, 70, 84>>],   \* "MSFT"
                 children |-> <<>>]]]

\* obj[a][b], then the value and exists() of the handle, and obj[b].
Lookup ==
    /\ Idle
    /\ \E raw \in {<<>>, <<56, 61, 70, 73, 88, 46, 52, 46, 50, 124, 51, 53, 61, 84, 124, 53, 53, 61, 73, 66, 77, 124>>},
               \* "8=FIX.4.2|35=T|55=IBM|"
          a \in LookupTags, b \in LookupTags :
          \E obj \in {decodeObject(ctl["decoder"], raw).decoded, NestedObject} :
              LET first  == ObjectLookup(obj, a)
                  second == LookupChild(obj, first, b)
              IN  DecoderReturns("lookup", [obj |-> obj, a |-> a, b |-> b],
                                 ctl["decoder"], <<>>,
                                 [chained |-> second,
                                  value   |-> LookupValue(obj, second),
                                  exists  |-> exists(second),
                                  direct  |-> ObjectLookup(obj, b)])

RegisterTypeDecoder ==
    /\ Idle
    /\ \E type_name \in RegisteredTypeNames :
          DecoderReturns("registerTypeDecoder", type_name,
                         registerTypeDecoder(ctl["decoder"], type_name,
                                             "IsEmptyDecoder"),
                         <<>>, <<>>)

NextDecode ==
    \/ Normalize
    \/ NormalizeMessage
    \/ Decode
    \/ DecodeObject
    \/ RegisterTypeDecoder
    \/ Lookup
    \/ Return

SpecDecode == InitDecode /\ [][NextDecode]_vars

\* ------------------------------------------ properties of the single controller

\* The controller the last call left behind and the one it found.
Post == ctl[call.self]
Pre  == call.pre

Builders ==
    {"buildLogon", "buildHeartbeat", "buildTestRequest", "buildLogout",
     "buildResendRequest", "buildApplicationMessage"}

\* The value of the first field with that tag in a built (SOH-delimited) message.
TagOf(message, tag) == fieldValue(parseMessage(message).parsed, tag)

\* What onMessage reads from the frame it was given.
ReceivedOf(raw_message) ==
    IF raw_message \in AllInbound THEN ReceivedInbound[raw_message]
    ELSE Received(raw_message)
Envelope(raw_message) == ReceivedOf(raw_message).envelope
Parse(raw_message) == ReceivedOf(raw_message).parse

\* The frame is well formed and its CompIDs are the ones controller c expects.
WellFormedFor(c, raw_message) ==
    LET received == ReceivedOf(raw_message)
    IN  /\ received.envelope
        /\ received.parse.ok
        /\ fieldValue(received.parse.parsed, 49) = c.target_comp_id_
        /\ fieldValue(received.parse.parsed, 56) = c.sender_comp_id_

\* C1: Terminated is absorbing -- a call that finds the controller in state
\* Terminated (any builder, consume, onMessage on any frame) leaves it there.
C1_TerminatedAbsorbing ==
    (~Idle /\ Pre.state_ = "kTerminated") => Post.state_ = "kTerminated"

\* The messages the last call built, in build order.
BuiltBy ==
    IF call.op = "onMessage" THEN ret.outbound_messages
    ELSE IF call.op \in Builders THEN <<ret>>
    ELSE <<>>

\* next_outgoing_seq_num_ when the last call made its first build.
FirstSeqNum ==
    IF call.op = "buildLogon" /\ call.arg THEN U32(1)
    ELSE Pre.next_outgoing_seq_num_

\* C4: every message built, by a builder called directly or from inside
\* onMessage, carries in tag 34 the value next_outgoing_seq_num_ had when it
\* was built, and each build leaves the counter one higher (std::uint32_t
\* arithmetic).
C4_SeqNumAssignedAndAdvanced ==
    ~Idle =>
        /\ \A i \in 1..Len(BuiltBy) :
              TagOf(BuiltBy[i], 34) = toString(U32Add(FirstSeqNum, U32(i - 1)))
        /\ call.op \in Builders \cup {"onMessage"} =>
              Post.next_outgoing_seq_num_ = U32Add(FirstSeqNum, U32(Len(BuiltBy)))

\* A Reject built inside onMessage with the counter at 2, and a builder called
\* directly with the counter at 2, both leave it at 3.
C4_Witness ==
    /\ ~Idle
    /\ Pre.next_outgoing_seq_num_ = U32(2)
    /\ Post.next_outgoing_seq_num_ = U32(3)
    /\ call.op = "onMessage"
    /\ Len(ret.outbound_messages) = 1
    /\ TagOf(ret.outbound_messages[1], 35) = MsgReject
    /\ TagOf(ret.outbound_messages[1], 34) = <<Ch0 + 2>>

\* C5 as stated: no call leaves expected_incoming_seq_num_ or
\* next_outgoing_seq_num_ lower than it found it (so neither counter ever takes
\* a value lower than one it held earlier).
C5_CountersNeverDecrease ==
    ~Idle =>
        /\ U32Le(Pre.expected_incoming_seq_num_, Post.expected_incoming_seq_num_)
        /\ U32Le(Pre.next_outgoing_seq_num_, Post.next_outgoing_seq_num_)

ResetLogon == call.op = "buildLogon" /\ call.arg

\* The 32-bit sum a + b does not fit 32 bits.
Carries(a, b) == a[1] + b[1] + ((a[2] + b[2]) \div Limb) >= Limb

\* C5, amended: a call leaves a counter lower than it found it only if it is
\* buildLogon(true), which sets both counters to 1, or if the counter passed
\* 2^32 - 1: a build at next_outgoing_seq_num_ = 2^32 - 1, a
\* skipOutboundSequence whose sum does not fit 32 bits, or the in-order
\* increment at expected_incoming_seq_num_ = 2^32 - 1.
C5_CountersDecreaseOnlyByResetOrWrap ==
    ~Idle =>
        /\ U32Lt(Post.expected_incoming_seq_num_, Pre.expected_incoming_seq_num_) =>
              \/ ResetLogon
              \/ call.op = "onMessage" /\ Pre.expected_incoming_seq_num_ = U32Max
        /\ U32Lt(Post.next_outgoing_seq_num_, Pre.next_outgoing_seq_num_) =>
              \/ ResetLogon
              \/ Len(BuiltBy) > 0 /\ Pre.next_outgoing_seq_num_ = U32Max
              \/ call.op = "skipOutboundSequence"
                 /\ Carries(Pre.next_outgoing_seq_num_, call.arg)

\* buildLogon(true) has taken both counters back to 1 (the outgoing one is 2
\* after the Logon it built).
C5_Witness ==
    /\ ~Idle
    /\ ResetLogon
    /\ Pre.expected_incoming_seq_num_ = U32(2)
    /\ Pre.next_outgoing_seq_num_ = U32(3)
    /\ Post.expected_incoming_seq_num_ = U32(1)
    /\ Post.next_outgoing_seq_num_ = U32(2)

AcceptedCall == ~Idle /\ call.op = "onMessage" /\ ret.disposition = "kAccepted"

\* C6 as stated: every onMessage call that returns Accepted leaves
\* expected_incoming_seq_num_ exactly one above the value it found.
C6_AcceptedAdvancesByOne ==
    AcceptedCall =>
        Post.expected_incoming_seq_num_ =
            U32Add(Pre.expected_incoming_seq_num_, U32(1))

\* C6, amended: an onMessage call that returns Accepted leaves
\* expected_incoming_seq_num_ one above the value it found (std::uint32_t
\* arithmetic), except for a SequenceReset whose tag 36 parses to a value not
\* below that: then the counter is that value.
C6_AcceptedAdvancesByOneOrResets ==
    AcceptedCall =>
        LET parsed  == Parse(call.arg).parsed
            new_seq == parseUint(fieldValue(parsed, 36))
            next    == U32Add(Pre.expected_incoming_seq_num_, U32(1))
        IN  Post.expected_incoming_seq_num_ =
                IF parsed.msg_type = MsgSeqReset /\ new_seq.ok
                   /\ U32Le(next, new_seq.out)
                THEN new_seq.out
                ELSE next

\* An accepted SequenceReset has moved the counter from 2 past 3.
C6_Witness ==
    /\ AcceptedCall
    /\ ret.events = <<"sequence_reset">>
    /\ Pre.expected_incoming_seq_num_ = U32(2)
    /\ U32Lt(U32(3), Post.expected_incoming_seq_num_)

\* The frame was classified as ahead of the expected sequence number.
GapCall ==
    /\ ~Idle /\ call.op = "onMessage"
    /\ ret.disposition = "kOutOfSync"
    /\ Parse(call.arg).ok
    /\ U32Lt(Pre.expected_incoming_seq_num_, Parse(call.arg).parsed.sequence_number)

\* C7: an onMessage call that returns Garbled (envelope failure, parse failure,
\* CompID mismatch), or OutOfSync for a MsgSeqNum above the expected one,
\* leaves expected_incoming_seq_num_ as it found it.
C7_GarbledOrGapKeepsExpected ==
    (GapCall \/ (~Idle /\ call.op = "onMessage" /\ ret.disposition = "kGarbled")) =>
        Post.expected_incoming_seq_num_ = Pre.expected_incoming_seq_num_

\* A frame numbered above the expected 2 has been answered as a gap.
C7_Witness ==
    /\ GapCall
    /\ ret.events = <<"sequence_gap">>
    /\ Pre.expected_incoming_seq_num_ = U32(2)
    /\ Post.expected_incoming_seq_num_ = U32(2)

\* C8: an onMessage call whose disposition is not Accepted (Garbled, or
\* OutOfSync for sequence_gap, sequence_too_low or logon_required) leaves
\* expected_incoming_seq_num_ as it found it.
C8_OnlyAcceptedAdvancesExpected ==
    (~Idle /\ call.op = "onMessage" /\ ret.disposition # "kAccepted") =>
        Post.expected_incoming_seq_num_ = Pre.expected_incoming_seq_num_

\* C10: onMessage on a well-formed frame with matching CompIDs whose MsgSeqNum
\* is above expected_incoming_seq_num_ = E returns OutOfSync with the event
\* "sequence_gap" and one outbound message, a ResendRequest (35=2) with 7=E and
\* 16=0, and leaves E, state_, logon_sent_ and logon_received_ as they were.
C10_SequenceGap ==
    (/\ ~Idle /\ call.op = "onMessage"
     /\ WellFormedFor(Pre, call.arg)
     /\ U32Lt(Pre.expected_incoming_seq_num_, Parse(call.arg).parsed.sequence_number))
    =>
        /\ ret.disposition = "kOutOfSync"
        /\ ret.events = <<"sequence_gap">>
        /\ Len(ret.outbound_messages) = 1
        /\ LET outbound == parseMessage(ret.outbound_messages[1]).parsed
           IN  /\ fieldValue(outbound, 35) = MsgResendReq
               /\ fieldValue(outbound, 7) = toString(Pre.expected_incoming_seq_num_)
               /\ fieldValue(outbound, 16) = <<Ch0>>
        /\ Post.expected_incoming_seq_num_ = Pre.expected_incoming_seq_num_
        /\ Post.state_ = Pre.state_
        /\ Post.logon_sent_ = Pre.logon_sent_
        /\ Post.logon_received_ = Pre.logon_received_

\* An established session expecting 2 has received a frame numbered 2^32 - 1.
C10_Witness ==
    /\ ~Idle /\ call.op = "onMessage"
    /\ WellFormedFor(Pre, call.arg)
    /\ Parse(call.arg).parsed.sequence_number = U32Max
    /\ Pre.expected_incoming_seq_num_ = U32(2)
    /\ Pre.state_ = "kEstablished"
    /\ TagOf(ret.outbound_messages[1], 7) = <<Ch0 + 2>>


\* ----------------------------------------- properties of the classification

OnMessageCall == ~Idle /\ call.op = "onMessage"

\* The call left state_, expected_incoming_seq_num_ and the logon flags alone.
SessionKept ==
    /\ Post.state_ = Pre.state_
    /\ Post.expected_incoming_seq_num_ = Pre.expected_incoming_seq_num_
    /\ Post.logon_sent_ = Pre.logon_sent_
    /\ Post.logon_received_ = Pre.logon_received_

\* The call returned exactly one outbound message, of that type and with
\* that tag 58.
OneOutbound(msg_type, text) ==
    /\ Len(ret.outbound_messages) = 1
    /\ LET outbound == parseMessage(ret.outbound_messages[1]).parsed
       IN  /\ fieldValue(outbound, 35) = msg_type
           /\ fieldValue(outbound, 58) = text

\* C11: garbled envelope -- onMessage on a frame whose BodyLength or CheckSum
\* does not validate returns Garbled with the event "garbled_message" and one
\* outbound Reject (35=3) with 58=Invalid BodyLength or CheckSum, in every
\* session state, and leaves state_, expected_incoming_seq_num_, logon_sent_
\* and logon_received_ as they were.
C11_GarbledEnvelope ==
    (OnMessageCall /\ ~Envelope(call.arg)) =>
        /\ ret.disposition = "kGarbled"
        /\ ret.events = <<"garbled_message">>
        /\ OneOutbound(MsgReject, TextInvalidEnvelope)
        /\ SessionKept

\* An established session has been handed the literal of RejectsGarbledMessage
\* and is still established.
C11_Witness ==
    /\ OnMessageCall
    /\ call.arg = GarbledLiteral
    /\ ~Envelope(call.arg)
    /\ Pre.state_ = "kEstablished"
    /\ Post.state_ = "kEstablished"
    /\ ret.disposition = "kGarbled"

TextTag35 == <<32, 40, 116, 97, 103, 32, 51, 53, 41>>   \* " (tag 35)"
TextTag34 == <<32, 40, 116, 97, 103, 32, 51, 52, 41>>   \* " (tag 34)"

\* The description of the first parse error, by its code.
FirstParseErrorText(error) ==
    CASE error.code = "kMalformedTagValue" -> TextMalformedTagValue
      [] error.code = "kTagNotNumeric"     -> TextTagNotNumeric
      [] error.code = "kMissingMsgType"    -> TextMissingMsgType \o TextTag35
      [] error.code = "kMissingMsgSeqNum"  -> TextMissingMsgSeqNum \o TextTag34
      [] error.code = "kInvalidMsgSeqNum"  -> TextInvalidMsgSeqNum \o TextTag34
      [] OTHER                             -> <<>>

\* C12: parse garbled -- onMessage on a frame that passes the envelope check
\* but does not parse (a token without '=', a tag that is not numeric, no tag
\* 35, no tag 34, a tag 34 that is not an unsigned decimal) returns Garbled
\* with the event "garbled_message" and exactly one outbound Reject (35=3)
\* whose tag 58 describes the first parse error, and leaves state_,
\* expected_incoming_seq_num_ and the logon flags as they were.  A frame whose
\* last field lacks its SOH is none of these.
C12_GarbledParse ==
    (/\ OnMessageCall /\ Envelope(call.arg) /\ ~Parse(call.arg).ok
     /\ Parse(call.arg).error.code # "kMissingFieldTerminator") =>
        /\ ret.disposition = "kGarbled"
        /\ ret.events = <<"garbled_message">>
        /\ OneOutbound(MsgReject, FirstParseErrorText(Parse(call.arg).error))
        /\ FirstParseErrorText(Parse(call.arg).error) # <<>>
        /\ SessionKept

\* A frame without tag 35 has been answered with "Missing MsgType (tag 35)".
C12_Witness ==
    /\ OnMessageCall
    /\ call.arg = Enveloped(StrSeqNum \o <<Ch0 + 1, kSoh>>)
    /\ Envelope(call.arg)
    /\ OneOutbound(MsgReject, TextMissingMsgType \o TextTag35)
    /\ Pre.state_ = "kAwaitingLogon"
    /\ Post.state_ = "kAwaitingLogon"

\* The frame parsed, with its envelope in order.
WellFormed(raw_message) == Envelope(raw_message) /\ Parse(raw_message).ok

\* MsgSeqNum and MsgType of the frame of the last call.
ArgSeqNum  == Parse(call.arg).parsed.sequence_number
ArgMsgType == Parse(call.arg).parsed.msg_type

\* C13: CompID mismatch -- onMessage on a well-formed frame whose tag 49 is not
\* target_comp_id_ or whose tag 56 is not sender_comp_id_, whatever its
\* MsgSeqNum and MsgType, returns Garbled with the event "comp_id_mismatch" and
\* an outbound Logout (35=5) with 58=CompID mismatch, sets state_ to
\* Terminated, and leaves expected_incoming_seq_num_ as it was.
C13_CompIdMismatch ==
    (/\ OnMessageCall /\ WellFormed(call.arg)
     /\ \/ fieldValue(Parse(call.arg).parsed, 49) # Pre.target_comp_id_
        \/ fieldValue(Parse(call.arg).parsed, 56) # Pre.sender_comp_id_)
    =>
        /\ ret.disposition = "kGarbled"
        /\ ret.events = <<"comp_id_mismatch">>
        /\ OneOutbound(MsgLogout, TextCompIdMismatch)
        /\ Post.state_ = "kTerminated"
        /\ Post.expected_incoming_seq_num_ = Pre.expected_incoming_seq_num_

\* An established session has been handed a Logon from a stranger, numbered
\* above the expected sequence number.
C13_Witness ==
    /\ OnMessageCall /\ WellFormed(call.arg)
    /\ fieldValue(Parse(call.arg).parsed, 49) = IdStranger
    /\ ArgMsgType = MsgLogon
    /\ U32Lt(Pre.expected_incoming_seq_num_, ArgSeqNum)
    /\ Pre.state_ = "kEstablished"
    /\ Post.state_ = "kTerminated"
    /\ ret.events = <<"comp_id_mismatch">>

\* C14: sequence too low -- onMessage on a well-formed frame with matching
\* CompIDs whose MsgSeqNum is below expected_incoming_seq_num_ returns
\* OutOfSync with the event "sequence_too_low" and an outbound Logout with
\* 58=MsgSeqNum too low, and sets state_ to Terminated.
C14_SequenceTooLow ==
    (/\ OnMessageCall /\ WellFormedFor(Pre, call.arg)
     /\ U32Lt(ArgSeqNum, Pre.expected_incoming_seq_num_))
    =>
        /\ ret.disposition = "kOutOfSync"
        /\ ret.events = <<"sequence_too_low">>
        /\ OneOutbound(MsgLogout, TextSeqTooLow)
        /\ Post.state_ = "kTerminated"

\* An established session expecting 3 has been handed a frame numbered 1.
C14_Witness ==
    /\ OnMessageCall /\ WellFormedFor(Pre, call.arg)
    /\ ArgSeqNum = U32(1)
    /\ Pre.expected_incoming_seq_num_ = U32(3)
    /\ Pre.state_ = "kEstablished"
    /\ Post.state_ = "kTerminated"
    /\ ret.events = <<"sequence_too_low">>

\* The frame of the last call was well formed, from the expected peer and in
\* sequence.
InSequenceCall ==
    /\ OnMessageCall /\ WellFormedFor(Pre, call.arg)
    /\ ArgSeqNum = Pre.expected_incoming_seq_num_

\* C15: pre-logon traffic -- onMessage on an in-sequence well-formed frame
\* whose MsgType is neither A nor 5, while logon_received_ is false, returns
\* OutOfSync with the event "logon_required" and an outbound Logout with
\* 58=Expected Logon, and sets state_ to Terminated.
C15_LogonRequired ==
    (/\ InSequenceCall
     /\ ArgMsgType \notin {MsgLogon, MsgLogout}
     /\ ~Pre.logon_received_)
    =>
        /\ ret.disposition = "kOutOfSync"
        /\ ret.events = <<"logon_required">>
        /\ OneOutbound(MsgLogout, TextExpectedLogon)
        /\ Post.state_ = "kTerminated"

\* An initiator awaiting the answer to its Logon has been handed an order.
C15_Witness ==
    /\ InSequenceCall
    /\ ArgMsgType = MsgOrder
    /\ ~Pre.logon_received_
    /\ Pre.state_ = "kAwaitingLogon"
    /\ Post.state_ = "kTerminated"
    /\ ret.events = <<"logon_required">>

\* C16: inbound Logout -- onMessage on an in-sequence well-formed Logout (35=5)
\* returns Accepted with the event "logout" and sets state_ to Terminated; the
\* outbound list holds a Logout with 58=Logout Ack if state_ was not
\* LogoutSent before the call, and is empty if it was.
C16_InboundLogout ==
    (InSequenceCall /\ ArgMsgType = MsgLogout) =>
        /\ ret.disposition = "kAccepted"
        /\ ret.events = <<"logout">>
        /\ Post.state_ = "kTerminated"
        /\ IF Pre.state_ # "kLogoutSent"
           THEN OneOutbound(MsgLogout, TextLogoutAck)
           ELSE ret.outbound_messages = <<>>

\* A controller that had sent its Logout has received the peer's and answers
\* nothing.
C16_Witness ==
    /\ InSequenceCall /\ ArgMsgType = MsgLogout
    /\ Pre.state_ = "kLogoutSent"
    /\ Pre.logon_received_
    /\ ret.outbound_messages = <<>>
    /\ Post.state_ = "kTerminated"

\* C17: inbound SequenceReset -- onMessage on an in-sequence SequenceReset
\* (35=4) received after logon returns Accepted with the event
\* "sequence_reset"; when tag 36 parses to a newSeq not below E (the expected
\* number after the in-order increment) expected_incoming_seq_num_ becomes
\* newSeq, and otherwise (tag 36 absent, unparseable or below E) the call
\* changes nothing more and still carries the event.
C17_SequenceResetEvent ==
    (InSequenceCall /\ ArgMsgType = MsgSeqReset /\ Pre.logon_received_) =>
        LET E       == U32Add(Pre.expected_incoming_seq_num_, U32(1))
            new_seq == parseUint(fieldValue(Parse(call.arg).parsed, 36))
        IN  /\ ret.disposition = "kAccepted"
            /\ ret.events = <<"sequence_reset">>
            /\ ret.outbound_messages = <<>>
            /\ Post.expected_incoming_seq_num_ =
                   IF new_seq.ok /\ U32Le(E, new_seq.out) THEN new_seq.out ELSE E

\* The tags of a parsed message.
TagsOf(parsed) == {parsed.ordered_fields[i].tag : i \in DOMAIN parsed.ordered_fields}

\* C18: inbound TestRequest -- onMessage on an in-sequence TestRequest (35=1)
\* received after logon returns Accepted with the event "test_request" and
\* exactly one outbound Heartbeat (35=0); the Heartbeat carries tag 112 with
\* the value of the request's tag 112 when that value is present and not
\* empty, and carries no tag 112 otherwise; state_ is unchanged.
C18_TestRequest ==
    (InSequenceCall /\ ArgMsgType = MsgTestRequest /\ Pre.logon_received_) =>
        /\ ret.disposition = "kAccepted"
        /\ ret.events = <<"test_request">>
        /\ Len(ret.outbound_messages) = 1
        /\ LET outbound    == parseMessage(ret.outbound_messages[1])
               test_req_id == fieldValue(Parse(call.arg).parsed, 112)
           IN  /\ outbound.ok
               /\ outbound.parsed.msg_type = MsgHeartbeat
               /\ IF test_req_id # <<>>
                  THEN /\ 112 \in TagsOf(outbound.parsed)
                       /\ fieldValue(outbound.parsed, 112) = test_req_id
                  ELSE 112 \notin TagsOf(outbound.parsed)
        /\ Post.state_ = Pre.state_

\* An established session has answered a TestRequest carrying 112=T1 with a
\* Heartbeat carrying 112=T1.
C18_Witness ==
    /\ InSequenceCall /\ ArgMsgType = MsgTestRequest /\ Pre.logon_received_
    /\ fieldValue(Parse(call.arg).parsed, 112) = TestReqId
    /\ Len(ret.outbound_messages) = 1
    /\ TagOf(ret.outbound_messages[1], 112) = TestReqId
    /\ Pre.state_ = "kEstablished"
    /\ Post.state_ = "kEstablished"

\* The state_ the last call must have left, by the transitions of the session:
\* what it was before, unless the operation is one of those listed.
StateAfterCall ==
    CASE call.op = "buildLogon"  -> "kAwaitingLogon"
      [] call.op = "buildLogout" -> "kLogoutSent"
      [] call.op = "onMessage" /\ ret.events = <<"logon">> -> "kEstablished"
      [] call.op = "onMessage"
         /\ ret.events \in {<<"logout">>, <<"comp_id_mismatch">>,
                            <<"sequence_too_low">>, <<"logon_required">>}
         -> "kTerminated"
      [] OTHER -> Pre.state_

\* C30: state_ changes only through the listed transitions -- buildLogon
\* leaves AwaitingLogon, an accepted inbound Logon Established, buildLogout
\* LogoutSent, an inbound Logout or a hard error (CompID mismatch, sequence too
\* low, pre-logon traffic) Terminated; the other builders,
\* skipOutboundSequence, consume and every other onMessage call (garbled,
\* gap, heartbeat, test request, resend request, sequence reset, application
\* message) leave state_ as it was.
C30_StateTransitions ==
    ~Idle =>
        /\ Post.state_ = StateAfterCall
        /\ (call.op = "onMessage" /\ Len(ret.events) > 0) =>
               ret.events[1] \in {"logon", "logout", "comp_id_mismatch",
                                  "sequence_too_low", "logon_required",
                                  "garbled_message", "sequence_gap", "heartbeat",
                                  "test_request", "resend_request",
                                  "sequence_reset", "application_message"}

\* An established session has answered a sequence gap and is still established.
C30_Witness ==
    /\ OnMessageCall
    /\ ret.events = <<"sequence_gap">>
    /\ Pre.state_ = "kEstablished"
    /\ Post.state_ = "kEstablished"

\* ------------------------------------------------- properties of the pair

\* The Logon a fresh initiator builds first.
FirstLogon == buildLogon(NewController("initiator"), FALSE, Timestamp1).message

\* The acceptor, fresh, has been handed the initiator's first Logon.
AcceptorGotLogon ==
    /\ ~Idle /\ call.op = "onMessage" /\ call.self = "acceptor"
    /\ Pre = NewController("acceptor")
    /\ call.arg = FirstLogon

\* The initiator, awaiting the answer to its Logon, has been handed the
\* acceptor's first message, the acceptor having built nothing else.
InitiatorGotReply ==
    /\ ~Idle /\ call.op = "onMessage" /\ call.self = "initiator"
    /\ Pre.state_ = "kAwaitingLogon"
    /\ Pre.expected_incoming_seq_num_ = U32(1)
    /\ ctl["acceptor"].next_outgoing_seq_num_ = U32(2)

\* C9: logon handshake of a fresh initiator and a fresh acceptor with mirrored
\* CompIDs.  The acceptor's onMessage on the initiator's Logon returns Accepted
\* with the event "logon" and exactly one outbound message, a Logon; the
\* initiator's onMessage on that message returns Accepted with the event
\* "logon"; then both controllers are Established.
C9_LogonHandshake ==
    /\ AcceptorGotLogon =>
          /\ ret.disposition = "kAccepted"
          /\ ret.events = <<"logon">>
          /\ Len(ret.outbound_messages) = 1
          /\ TagOf(ret.outbound_messages[1], 35) = MsgLogon
    /\ InitiatorGotReply =>
          /\ TagOf(call.arg, 35) = MsgLogon
          /\ ret.disposition = "kAccepted"
          /\ ret.events = <<"logon">>
          /\ ctl["initiator"].state_ = "kEstablished"
          /\ ctl["acceptor"].state_ = "kEstablished"

\* The initiator has received the acceptor's Logon: the handshake is complete.
C9_Witness ==
    /\ InitiatorGotReply
    /\ TagOf(call.arg, 35) = MsgLogon
    /\ TagOf(call.arg, 49) = IdAcceptor
    /\ ret.disposition = "kAccepted"
    /\ ctl["initiator"].state_ = "kEstablished"
    /\ ctl["acceptor"].state_ = "kEstablished"
    /\ ctl["acceptor"].logon_sent_ /\ ctl["acceptor"].logon_received_


\* ------------------------------------------------ properties of the builders

\* C3: every message a builder returns, whatever the CompIDs, the begin string
\* and the caller's field tags and values, passes the envelope validation of
\* onMessage: normalize, then validateBodyLength, then validateChecksum.
C3_BuiltPassesEnvelope ==
    (~Idle /\ call.op \in Builders) => Envelope(ret)

\* ------------------------------------------------- properties of the stream

RECURSIVE CompleteFrames(_, _)
\* The frames, in order, whose last byte is among the first n bytes of the
\* concatenation of frames.
CompleteFrames(frames, n) ==
    IF frames = <<>> \/ Len(Head(frames)) > n THEN <<>>
    ELSE <<Head(frames)>> \o CompleteFrames(Tail(frames), n - Len(Head(frames)))

\* C2: consume is independent of chunking -- however the concatenation of
\* valid frames is split into chunks, the frames returned so far are the
\* original frames, in order, whose last byte has been delivered: none is
\* lost, none is returned before its last byte, and after the last chunk all
\* have been returned.
C2_ChunkingIndependent ==
    emitted = CompleteFrames(sent, Len(Concat(sent)) - Len(pending))

\* A byte range of buffer starts with "8=" and ends with SOH "10=", three
\* digits and SOH.
HasCompleteFrame(buffer) ==
    \E begin \in 0..(Len(buffer) - 10) :
       /\ Substr(buffer, begin, 2) = StrBegin
       /\ \E trailer \in (begin + 2)..(Len(buffer) - 8) :
             /\ Substr(buffer, trailer, 4) = StrTrailer
             /\ IsDigit(At(buffer, trailer + 4))
             /\ IsDigit(At(buffer, trailer + 5))
             /\ IsDigit(At(buffer, trailer + 6))
             /\ At(buffer, trailer + 7) = kSoh

\* C19: stream_buffer_ never retains a complete frame -- whatever has been fed
\* to consume so far, once a call has returned stream_buffer_ holds no byte
\* range that starts with "8=" and ends with SOH "10=", three digits and SOH.
C19_NoCompleteFrameRetained ==
    \A self \in DOMAIN ctl : ~HasCompleteFrame(ctl[self].stream_buffer_)

\* The fragment "0" SOH "8=" has completed the frame waiting in stream_buffer_,
\* which consume returned, and started the next, which it kept.
C19_Witness ==
    /\ ~Idle /\ call.op = "consume"
    /\ call.arg = <<Ch0, kSoh>> \o StrBegin
    /\ HasCompleteFrame(Pre.stream_buffer_ \o call.arg)
    /\ ret = <<StrBegin \o StrTrailer \o <<Ch0, Ch0, Ch0, kSoh>>>>
    /\ Post.stream_buffer_ = StrBegin

\* The last call was one consume on a wire of frames and garbage.
WireCall == ~Idle /\ call.op = "consume" /\ sent # <<>>

\* C20: one consume call on valid frames interleaved with garbage (garbage
\* holding neither "8=" nor SOH "10=") returns every frame, SOH-delimited, in
\* the order of the wire, and nothing else: the garbage is neither returned
\* nor kept.
C20_WireOrder ==
    WireCall =>
        /\ ret = [i \in DOMAIN sent |-> normalize(sent[i])]
        /\ Post.stream_buffer_ = <<>>

\* Two different frames, one of them written with '|', came out of a wire with
\* garbage before, between and after them.
C20_Witness ==
    /\ WireCall
    /\ call.arg = <<88, 56>> \o FrameLogon \o <<Ch0 + 1, Ch0, ChEq>>
                    \o Piped(FrameHeartbeat) \o SymbolIbm
    /\ ret = <<FrameLogon, FrameHeartbeat>>
    /\ Post.stream_buffer_ = <<>>


\* ---------------------------------------------- properties of the decoder

DecoderCall(op) == call.op = op /\ call.self = "decoder"

\* C23: normalization replaces every '|' of its input with SOH and leaves
\* every other byte as it is, whether or not the input already holds an
\* SOH, in Controller::normalize and in Decoder::normalizeMessage alike, and
\* normalizing the result again changes nothing.
C23_NormalizeReplacesEveryPipe ==
    (~Idle /\ call.op \in {"normalize", "normalizeMessage"}) =>
        /\ Len(ret) = Len(call.arg)
        /\ \A i \in 1..Len(ret) :
              ret[i] = IF call.arg[i] = ChPipe THEN kSoh ELSE call.arg[i]
        /\ call.op = "normalize" => normalize(ret) = ret
        /\ call.op = "normalizeMessage" => normalizeMessage(ret) = ret

RECURSIVE TokensFrom(_, _)
\* The tokens of bytes from index start on, each ending at an SOH or a '|'
\* or at the end of bytes.
TokensFrom(bytes, start) ==
    IF start > Len(bytes) THEN <<>>
    ELSE LET ends == {i \in start..Len(bytes) : bytes[i] \in {kSoh, ChPipe}}
             end  == IF ends = {} THEN Len(bytes) + 1
                     ELSE CHOOSE i \in ends : \A j \in ends : i <= j
         IN  <<SubSeq(bytes, start, end - 1)>> \o TokensFrom(bytes, end + 1)

\* A well-formed token: a positive decimal tag, then '='.
IsWellFormedToken(token) ==
    LET eq == Find(token, <<ChEq>>, 0)
    IN  /\ eq # npos /\ eq > 0
        /\ \A i \in 1..eq : IsDigit(token[i])
        /\ \E i \in 1..eq : token[i] # Ch0

\* The tag, as its decimal text, and the value of each well-formed token of
\* raw, in wire order.
WellFormedTokens(raw) ==
    LET tokens == SelectSeq(TokensFrom(raw, 1), IsWellFormedToken)
    IN  [i \in 1..Len(tokens) |->
            LET eq == Find(tokens[i], <<ChEq>>, 0)
            IN  [tag   |-> StripZeros(SubSeq(tokens[i], 1, eq)),
                 value |-> SubSeq(tokens[i], eq + 2, Len(tokens[i]))]]

\* C21: decode(raw) returns one DecodedField for each well-formed token of
\* raw and none for any other token, in wire order, each with the tag of its
\* token and, as value, a slice of the result's normalized_message holding
\* the value of its token.
C21_OneFieldPerToken ==
    DecoderCall("decode") =>
        LET expected == WellFormedTokens(call.arg)
        IN  /\ Len(ret.fields) = Len(expected)
            /\ \A i \in 1..Len(ret.fields) :
                  /\ IntToString(ret.fields[i].tag) = expected[i].tag
                  /\ 0 <= ret.fields[i].value_begin
                  /\ ret.fields[i].value_begin <= ret.fields[i].value_end
                  /\ ret.fields[i].value_end <= Len(ret.normalized_message)
                  /\ ValueOf(ret.normalized_message, ret.fields[i])
                         = expected[i].value

\* C22: the keys of decodeObject(raw).fields are the distinct tags of the
\* well-formed tokens of raw, and the node under each tag holds the typed
\* decoding of the value of the first token with that tag.
C22_FirstOccurrencePerTag ==
    DecoderCall("decodeObject") =>
        LET expected == WellFormedTokens(call.arg)
            resolver == selectVersionDecoder(normalize(call.arg)).resolver
            First(tag) == CHOOSE i \in 1..Len(expected) :
                              /\ expected[i].tag = IntToString(tag)
                              /\ \A j \in 1..(i - 1) : expected[j].tag # expected[i].tag
        IN  /\ {IntToString(tag) : tag \in DOMAIN ret.fields}
                   = {expected[i].tag : i \in 1..Len(expected)}
            /\ \A tag \in DOMAIN ret.fields :
                  ret.fields[tag].value
                      = IF resolver # <<>>
                        THEN decodeTypedValueByTag(call.pre,
                                                   decoderTagFor(resolver, tag),
                                                   expected[First(tag)].value)
                        ELSE decodeTypedValueByType(call.pre, TypeString,
                                                    expected[First(tag)].value)

DecodeCall == DecoderCall("decode") \/ DecoderCall("decodeObject")

\* The fields of the message a decode call returned.
ParsedFields == splitTags(ret.normalized_message)

\* The values the returned message gives a tag.
ValuesOf(tag) ==
    {ValueOf(ret.normalized_message, ParsedFields[i]) :
        i \in {j \in 1..Len(ParsedFields) : ParsedFields[j].tag = tag}}

\* The loaded dictionaries a BeginString or an ApplVerID of the message
\* names that define one of its MsgTypes.
DefiningDictionaries ==
    {dict \in call.pre.dictionaries_ :
        /\ dict.begin_string \in
               ValuesOf(8) \cup {applicationVersionIdToBeginString(v) :
                                    v \in ValuesOf(1128)}
        /\ \E msg_type \in ValuesOf(35) : messageByType(dict, msg_type) # <<>>}

\* C24: in every result of decode and of decodeObject structurally_valid is
\* true exactly when validation_errors is empty, and it is true when no
\* loaded dictionary matches the message or the matching one does not
\* define the MsgType of the message.
C24_ValidIffNoErrors ==
    DecodeCall =>
        /\ ret.structurally_valid <=> ret.validation_errors = <<>>
        /\ DefiningDictionaries = {} => ret.structurally_valid

\* A message of a MsgType that the dictionary of its BeginString does not
\* define, decoded as valid.
C24_Witness ==
    /\ DecodeCall
    /\ \E dict \in call.pre.dictionaries_ : dict.begin_string \in ValuesOf(8)
    /\ DefiningDictionaries = {}
    /\ ValuesOf(35) # {}
    /\ ret.structurally_valid
    /\ ret.validation_errors = <<>>

\* A message that failed its validation.
InvalidResult == DecodeCall /\ ~ret.structurally_valid /\ ret.validation_errors # <<>>

\* The visits of members of the given kind in the walk of the decode call.
Visits(kind) == {i \in 1..Len(call.log) : call.log[i].kind = kind}

\* The field the walk stood at when it came to the member of visit v
\* carries the tag of the field of that name.
AtOwnTag(v) ==
    \E dict \in call.pre.dictionaries_ : \E def \in dict.fields :
        def.name = v.name /\ TagAt(ParsedFields, v.before, def.number)

\* The value of the field at index of the decoded message.
ValueAt(index) == ValueOf(ret.normalized_message, ParsedFields[index + 1])

IsDecimal(text) == Len(text) > 0 /\ \A i \in 1..Len(text) : IsDigit(text[i])

EmptyGroupWalked ==
    /\ DecodeCall
    /\ \E i \in Visits("Group") :
          AtOwnTag(call.log[i]) /\ ValueAt(call.log[i].before) = <<Ch0>>

InvalidCountWalked ==
    /\ DecodeCall
    /\ \E i \in Visits("Group") :
          AtOwnTag(call.log[i]) /\ ~IsDecimal(ValueAt(call.log[i].before))
\* C26: for every field member the walk visits, at the level of the message,
\* in a component or in an entry of a group: when the field the walk stands
\* at carries the member's tag, that one field is consumed and no error is
\* recorded; otherwise no field is consumed and "Missing required field
\* '<name>'" is recorded exactly when the member is required.  So the valid
\* order of the decoder tests has no errors, and the order whose second
\* party lacks its PartyRole is not structurally valid.
C26_FieldMember ==
    DecodeCall =>
        /\ \A i \in Visits("Field") :
              LET v == call.log[i]
              IN  IF AtOwnTag(v)
                  THEN v.after = v.before + 1 /\ v.errors = <<>>
                  ELSE /\ v.after = v.before
                       /\ v.errors = IF v.required
                                     THEN <<<<77, 105, 115, 115, 105, 110, 103, 32, 114, 101, 113, 117, 105, 114, 101, 100, 32, 102, 105, 101, 108, 100, 32, 39>>   \* "Missing required field '"
                                              \o v.name \o <<39>>>>   \* "'"
                                     ELSE <<>>
        /\ GroupDictionary(Fix42) \in call.pre.dictionaries_ =>
              /\ normalize(call.arg)
                     = normalize(OrderHead \o <<50, 124>> \o PartyOne \o PartyTwo)   \* "2|"
                 => ret.structurally_valid /\ ret.validation_errors = <<>>
              /\ normalize(call.arg)
                     = normalize(OrderHead \o <<50, 124>> \o PartyOne \o PartyShort)   \* "2|"
                 => /\ ~ret.structurally_valid
                    /\ \E k \in 1..Len(ret.validation_errors) :
                          ret.validation_errors[k]
                              = <<77, 105, 115, 115, 105, 110, 103, 32, 114, 101, 113, 117, 105, 114, 101, 100, 32, 102, 105, 101, 108, 100, 32, 39, 80, 97, 114, 116, 121, 82, 111, 108, 101, 39>>   \* "Missing required field 'PartyRole'"

\* An optional field member that is absent and a required one that is
\* absent have been visited in one walk.
C26_Witness ==
    /\ DecodeCall
    /\ \E i, j \in Visits("Field") :
          /\ ~AtOwnTag(call.log[i]) /\ ~call.log[i].required
          /\ ~AtOwnTag(call.log[j]) /\ call.log[j].required
          /\ call.log[j].errors # <<>>

\* The node of obj under tag a has a child under tag b.
HasChild(obj, a, b) == HasKey(obj.fields, a) /\ HasKey(obj.fields[a].children, b)

\* C27: obj[a][b] is the child b of the node of a when there is one;
\* otherwise, also when obj has no a, it resolves to the node obj[b]
\* resolves to; and a tag found at neither level gives a handle that does
\* not exist and has no value.  Looking up 35 and then 55 in the object of
\* "8=FIX.4.2|35=T|55=IBM|" gives "IBM".
C27_ChainedLookup ==
    DecoderCall("lookup") =>
        LET obj == call.arg.obj
            a   == call.arg.a
            b   == call.arg.b
        IN  /\ HasChild(obj, a, b) =>
                  /\ ret.exists
                  /\ ret.value = obj.fields[a].children[b].value
            /\ ~HasChild(obj, a, b) =>
                  /\ ret.chained.node_ = ret.direct.node_
                  /\ ret.exists = HasKey(obj.fields, b)
                  /\ HasKey(obj.fields, b) => ret.value = obj.fields[b].value
                  /\ ~HasKey(obj.fields, b) => ret.value = Monostate
            /\ (/\ obj.normalized_message = normalize(<<56, 61, 70, 73, 88, 46, 52, 46, 50, 124, 51, 53, 61, 84, 124, 53, 53, 61, 73, 66, 77, 124>>)   \* "8=FIX.4.2|35=T|55=IBM|"
                /\ a = 35 /\ b = 55)
               => ret.value = [kind |-> "string_view", text |-> <<73, 66, 77>>]   \* "IBM"

\* Tag 55 looked up from the node of 35, which has no child 55, was found
\* in the root.
C27_Witness ==
    /\ DecoderCall("lookup")
    /\ call.arg.a = 35 /\ call.arg.b = 55
    /\ ~HasChild(call.arg.obj, 35, 55)
    /\ ret.exists
    /\ ret.chained.node_ = <<55>>

\* Tag 55 looked up from the node of 35 was found among its children.
ChildFound ==
    /\ DecoderCall("lookup")
    /\ HasChild(call.arg.obj, call.arg.a, call.arg.b)
    /\ ret.chained.node_ = <<35, 55>>

\* The decoder a caller registered is in force for the type of field i of
\* the decoded message.
RegisteredFor(i) ==
    LET key == toUpperCopy(ret.fields[i].type)
    IN  /\ ret.fields[i].type # <<>>
        /\ key \in DOMAIN call.pre.value_decoders_
        /\ call.pre.value_decoders_[key] = "IsEmptyDecoder"

\* C28: once registerTypeDecoder(type_name, d) has been called, every field
\* decoded afterwards whose type is type_name in any letter case has
\* typed_value = d(value), whether or not the BeginString of the message
\* has a resolver.
C28_RegisteredDecoderApplies ==
    DecoderCall("decode") =>
        \A i \in 1..Len(ret.fields) :
            RegisteredFor(i) =>
                ret.fields[i].typed_value
                    = [kind  |-> "bool",
                       value |-> ValueOf(ret.normalized_message, ret.fields[i])
                                     = <<>>]

\* The same, for the messages whose BeginString has no resolver.
RegisteredDecoderAppliesWithoutResolver ==
    (DecoderCall("decode")
     /\ selectVersionDecoder(ret.normalized_message).resolver = <<>>) =>
        \A i \in 1..Len(ret.fields) :
            RegisteredFor(i) =>
                ret.fields[i].typed_value
                    = [kind  |-> "bool",
                       value |-> ValueOf(ret.normalized_message, ret.fields[i])
                                     = <<>>]

FieldDecodedWithoutResolver ==
    /\ DecoderCall("decode")
    /\ selectVersionDecoder(ret.normalized_message).resolver = <<>>
    /\ \E i \in 1..Len(ret.fields) : RegisteredFor(i)

\* The effective BeginStrings of the decoded message: what the table makes
\* of its ApplVerID when it has one, else its BeginString.
EffectiveBeginStrings ==
    IF ValuesOf(1128) # {}
    THEN {applicationVersionIdToBeginString(v) : v \in ValuesOf(1128)}
    ELSE ValuesOf(8)

\* C29: the dictionary decode takes names, types and validation from is the
\* loaded dictionary of the effective BeginString of the message; when none
\* is loaded no other takes its place, and the message is decoded without
\* names, types or validation.  The resolver is chosen by the same
\* effective BeginString.  (Stated for the messages that give tag 8 and
\* tag 1128 at most one value each.)
C29_DictionaryOfEffectiveBeginString ==
    (/\ DecoderCall("decode")
     /\ Cardinality(ValuesOf(8)) <= 1
     /\ Cardinality(ValuesOf(1128)) <= 1) =>
        LET dicts == {dict \in call.pre.dictionaries_ :
                         dict.begin_string \in EffectiveBeginStrings}
        IN  /\ dicts = {} =>
                  /\ \A i \in 1..Len(ret.fields) :
                        ret.fields[i].name = <<>> /\ ret.fields[i].type = <<>>
                  /\ call.log = <<>>
                  /\ ret.validation_errors = <<>>
            /\ dicts # {} =>
                  \E dict \in dicts : \A i \in 1..Len(ret.fields) :
                      LET def == fieldByNumber(dict, ret.fields[i].tag)
                      IN  /\ ret.fields[i].name
                                 = IF def = <<>> THEN <<>> ELSE def[1].name
                          /\ ret.fields[i].type
                                 = IF def = <<>> THEN <<>> ELSE def[1].type
            /\ selectVersionDecoder(ret.normalized_message).begin_string
                   \in EffectiveBeginStrings \cup {<<>>}

\* ------------------------------------- properties of the counters and the session

\* The MsgSeqNum of the i-th message the last onMessage call returned.
OutboundSeqNum(i) == parseUint(TagOf(ret.outbound_messages[i], 34))

\* C31: for every onMessage call, next_outgoing_seq_num_ after the call is its
\* value before plus the number of entries of the returned outbound_messages
\* (std::uint32_t arithmetic), and the tag 34 values of those entries are
\* consecutive and ascending in list order, starting at the value before.
C31_OutboundAdvanceCounter ==
    OnMessageCall =>
        LET n == Len(ret.outbound_messages)
        IN  /\ Post.next_outgoing_seq_num_ =
                   U32Add(Pre.next_outgoing_seq_num_, U32(n))
            /\ \A i \in 1..n :
                  /\ OutboundSeqNum(i).ok
                  /\ OutboundSeqNum(i).out =
                         U32Add(Pre.next_outgoing_seq_num_, U32(i - 1))
            /\ \A i, j \in 1..n :
                  i < j => U32Lt(OutboundSeqNum(i).out, OutboundSeqNum(j).out)

\* An inbound Logout has been acknowledged with the Logout numbered 3, and
\* the counter is 4.
C31_Witness ==
    /\ OnMessageCall
    /\ ret.events = <<"logout">>
    /\ Len(ret.outbound_messages) = 1
    /\ TagOf(ret.outbound_messages[1], 34) = <<Ch0 + 3>>
    /\ Pre.next_outgoing_seq_num_ = U32(3)
    /\ Post.next_outgoing_seq_num_ = U32(4)

\* C32: in every reachable state of a controller expected_incoming_seq_num_
\* and next_outgoing_seq_num_ are both at least 1, after any sequence of
\* builders, skipOutboundSequence, buildLogon(reset) and onMessage calls.
C32_CountersAtLeastOne ==
    \A id \in DOMAIN ctl :
        /\ U32Le(U32(1), ctl[id].expected_incoming_seq_num_)
        /\ U32Le(U32(1), ctl[id].next_outgoing_seq_num_)

\* The incoming counter alone: an in-order frame numbered 2^32 - 1 takes it
\* to 0.
ExpectedAtLeastOne ==
    \A id \in DOMAIN ctl : U32Le(U32(1), ctl[id].expected_incoming_seq_num_)

\* The last call was onMessage and a Logon is among what it returned.
AutomaticLogon ==
    /\ OnMessageCall
    /\ \E i \in 1..Len(ret.outbound_messages) :
          TagOf(ret.outbound_messages[i], 35) = MsgLogon

\* C33: onMessage on an in-sequence Logon sets logon_received_, returns
\* Accepted with the event "logon" and state_ Established, and returns a Logon
\* of its own exactly when role_ is Acceptor and no Logon was built before
\* (otherwise nothing); an initiator never answers.  A controller answers at
\* most once: a Logon is returned by onMessage only while logon_sent_ is
\* false, it sets logon_sent_, and no call clears logon_sent_.
C33_InboundLogon ==
    /\ (InSequenceCall /\ ArgMsgType = MsgLogon) =>
          /\ Post.logon_received_
          /\ ret.disposition = "kAccepted"
          /\ ret.events = <<"logon">>
          /\ Post.state_ = "kEstablished"
          /\ IF Pre.role_ = "kAcceptor" /\ ~Pre.logon_sent_
             THEN /\ Len(ret.outbound_messages) = 1
                  /\ TagOf(ret.outbound_messages[1], 35) = MsgLogon
             ELSE ret.outbound_messages = <<>>
    /\ AutomaticLogon =>
          /\ Pre.role_ = "kAcceptor"
          /\ ~Pre.logon_sent_
          /\ Post.logon_sent_
    /\ (~Idle /\ Pre.logon_sent_) => Post.logon_sent_

\* An acceptor that had built no Logon has answered the peer's Logon with
\* its own.
C33_Witness ==
    /\ InSequenceCall /\ ArgMsgType = MsgLogon
    /\ Pre.role_ = "kAcceptor"
    /\ ~Pre.logon_sent_
    /\ AutomaticLogon
    /\ Post.logon_sent_
    /\ Post.state_ = "kEstablished"

\* An acceptor that had built its Logon has been handed a second Logon in
\* sequence and has returned nothing.
SecondLogonUnanswered ==
    /\ InSequenceCall /\ ArgMsgType = MsgLogon
    /\ Pre.role_ = "kAcceptor"
    /\ Pre.logon_sent_ /\ Pre.logon_received_
    /\ ret.outbound_messages = <<>>

\* ----------------------------------------------- properties of the envelope

RECURSIVE DecimalValue(_)
\* The number a run of decimal digits writes.
DecimalValue(digits) ==
    IF digits = <<>> THEN 0
    ELSE 10 * DecimalValue(SubSeq(digits, 1, Len(digits) - 1))
         + (digits[Len(digits)] - Ch0)

AllDigits(text) == \A i \in 1..Len(text) : IsDigit(text[i])

\* The frame is 8=<bs> SOH 9=<N> SOH <body> 10=ddd SOH, where N counts the
\* bytes after the SOH of the 9 field up to and including the SOH before 10=,
\* and ddd is the sum modulo 256 of the bytes up to and including that SOH.
WellFormedEnvelope(frame) ==
    LET size       == Len(frame)
        trailer    == size - 8
        first_end  == Find(frame, <<kSoh>>, 0)
        second_end == IF first_end = npos THEN npos
                      ELSE Find(frame, <<kSoh>>, first_end + 1)
    IN  /\ size >= 8
        /\ Substr(frame, 0, 2) = StrBegin
        /\ second_end # npos
        /\ Substr(frame, first_end + 1, 2) = StrBodyLen
        /\ LET digits == Substr(frame, first_end + 3, second_end - first_end - 3)
           IN  /\ digits # <<>>
               /\ AllDigits(digits)
               /\ second_end <= trailer
               /\ DecimalValue(digits) = trailer - second_end
        /\ Substr(frame, trailer, 4) = StrTrailer
        /\ AllDigits(Substr(frame, trailer + 4, 3))
        /\ At(frame, size - 1) = kSoh
        /\ DecimalValue(Substr(frame, trailer + 4, 3))
               = SumBytes(frame, 1, trailer + 1) % 256

\* The call answered with the Reject of a failed envelope check.
EnvelopeRejected ==
    /\ ret.disposition = "kGarbled"
    /\ OneOutbound(MsgReject, TextInvalidEnvelope)

\* C34: onMessage gets past the envelope check exactly for the frames with a
\* well-formed envelope (first field 8=, second field 9=<N> with N the body
\* length, trailer SOH 10=ddd SOH with ddd the checksum); every other frame
\* is classified Garbled with 58=Invalid BodyLength or CheckSum.
C34_EnvelopeAcceptsExactlyWellFormed ==
    OnMessageCall =>
        (EnvelopeRejected <=> ~WellFormedEnvelope(normalize(call.arg)))

\* The same, leaving aside the frames of MisframedFrames.
EnvelopeExactOnFramedInput ==
    (OnMessageCall /\ call.arg \notin MisframedFrames(call.self)) =>
        (EnvelopeRejected <=> ~WellFormedEnvelope(normalize(call.arg)))

\* The frame ending in 'X' alone: it gets past the envelope check and is
\* garbled by the parse.
NoTerminatorRejectedByEnvelope ==
    (OnMessageCall /\ At(call.arg, Len(call.arg) - 1) # kSoh) => EnvelopeRejected

\* ------------------------------------------------ properties of the walk

\* The one loaded dictionary that the BeginString of the decoded message
\* names and that defines its MsgType, when the message has one BeginString,
\* one MsgType and no ApplVerID.
PlainlyDefined ==
    /\ DecodeCall
    /\ Cardinality(ValuesOf(8)) = 1
    /\ Cardinality(ValuesOf(35)) = 1
    /\ ValuesOf(1128) = {}
    /\ Cardinality(DefiningDictionaries) = 1

WalkedDictionary == CHOOSE dict \in DefiningDictionaries : TRUE

\* The top-level members of the definition of the message.
WalkedMembers ==
    messageByType(WalkedDictionary,
                  CHOOSE msg_type \in ValuesOf(35) : TRUE)[1].members

\* The leading tags of the top-level members.
LeadingTags ==
    {firstMemberTag(WalkedDictionary, WalkedMembers[k])[1] :
        k \in {j \in 1..Len(WalkedMembers) :
                  firstMemberTag(WalkedDictionary, WalkedMembers[j]) # <<>>}}

\* The indices of the fields that carry one of the tags.
FieldsTagged(tags) ==
    {i \in 0..(Len(ParsedFields) - 1) : ParsedFields[i + 1].tag \in tags}

Least(indices) == CHOOSE i \in indices : \A j \in indices : i <= j

\* C35: structural validation starts its walk at the index of the first
\* field, in wire order, whose tag is the leading tag of any top-level member
\* of the message definition, also when the leading tag of a later member
\* comes before that of the first member.
C35_WalkStartsAtFirstMemberTag ==
    (PlainlyDefined /\ call.log # <<>> /\ FieldsTagged(LeadingTags) # {}) =>
        call.log[1].before = Least(FieldsTagged(LeadingTags))

\* What the walk does instead: it starts at the first field carrying the
\* leading tag of the first member that has one, and only when no field
\* carries it at the first field carrying the leading tag of any member.
WalkStartsAtTagOfFirstMember ==
    (PlainlyDefined /\ call.log # <<>> /\ FieldsTagged(LeadingTags) # {}) =>
        LET start_tag == firstMemberTagOfMembers(WalkedDictionary, WalkedMembers)
            at_start  == FieldsTagged({start_tag[1]})
        IN  call.log[1].before =
                IF at_start # {} THEN Least(at_start)
                ELSE Least(FieldsTagged(LeadingTags))

\* The quote with Symbol before Text: the walk started at Text and reports
\* Symbol as missing.
SymbolReportedMissing ==
    /\ PlainlyDefined
    /\ Len(ParsedFields) = 4
    /\ ParsedFields[3].tag = 55 /\ ParsedFields[4].tag = 58
    /\ call.log # <<>> /\ call.log[1].before = 3
    /\ ret.validation_errors = <<MissingField(NameSymbol)>>

\* ------------------------------------- properties of decode and decodeObject

\* What the other of decode and decodeObject returns for the same decoder
\* and the same raw message.
OtherDecoded ==
    IF call.op = "decode" THEN decodeObject(call.pre, call.arg).decoded
    ELSE decode(call.pre, call.arg).decoded

\* The values a result may give for a tag: those of the message, or the
\* empty string when the message has none.
ValueOrEmpty(tag) == IF ValuesOf(tag) = {} THEN {<<>>} ELSE ValuesOf(tag)

\* C36: for every raw message decode and decodeObject return the same
\* begin_string, msg_type, structurally_valid and validation_errors, and
\* begin_string and msg_type are the values of tags 8 and 35 of the message.
C36_SamePipeline ==
    DecodeCall =>
        /\ ret.begin_string = OtherDecoded.begin_string
        /\ ret.msg_type = OtherDecoded.msg_type
        /\ ret.structurally_valid = OtherDecoded.structurally_valid
        /\ ret.validation_errors = OtherDecoded.validation_errors
        /\ ret.begin_string \in ValueOrEmpty(8)
        /\ ret.msg_type \in ValueOrEmpty(35)

\* The two agree on every message with at most one tag 8, at most one tag 35
\* and no tag 1128.
SamePipelineOnPlainMessages ==
    (/\ DecodeCall
     /\ Cardinality(ValuesOf(8)) <= 1 /\ Cardinality(ValuesOf(35)) <= 1
     /\ ValuesOf(1128) = {})
    =>
        /\ ret.begin_string = OtherDecoded.begin_string
        /\ ret.msg_type = OtherDecoded.msg_type
        /\ ret.structurally_valid = OtherDecoded.structurally_valid
        /\ ret.validation_errors = OtherDecoded.validation_errors
        /\ ret.begin_string \in ValueOrEmpty(8)
        /\ ret.msg_type \in ValueOrEmpty(35)

\* The two reach the same verdict on the structure of the message.
SameStructuralVerdict ==
    DecodeCall =>
        /\ ret.structurally_valid = OtherDecoded.structurally_valid
        /\ ret.validation_errors = OtherDecoded.validation_errors

\* ------------------------------------------- properties of the walk's progress

\* A call of decode or of decodeObject that never returned.
NeverReturned == call.op = "never returns"

\* The visits of the walk of a call that returned leave the index where it
\* was or move it forward, within the parsed fields, each starting no
\* earlier than the one recorded before it ended; and of the iterations of a
\* group's loop only the last may have consumed nothing.
WalkAdvances ==
    DecodeCall =>
        /\ \A i \in 1..Len(call.log) :
              /\ 0 <= call.log[i].before
              /\ call.log[i].before <= call.log[i].after
              /\ call.log[i].after <= Len(ParsedFields)
              /\ \A j \in 1..(i - 1) : call.log[j].after <= call.log[i].after
              /\ \A n \in 1..(Len(call.log[i].consumed) - 1) :
                    call.log[i].consumed[n] > 0

\* C37: the validation walk terminates for every message and every loaded
\* dictionary, dictionaries whose components reference other components
\* included, and throughout it the index never decreases and never exceeds
\* the number of parsed fields, a group's loop stopping at the first iteration
\* that consumes nothing.
C37_WalkTerminates == ~NeverReturned /\ WalkAdvances

\* The walk ends on every dictionary none of whose components comes back to
\* itself before a field.
WalkTerminatesWithoutLoop ==
    NeverReturned =>
        \E dict \in call.pre.dictionaries_ :
            \E msg \in dict.messages :
                \E k \in 1..Len(msg.members) :
                    ComponentUnbounded(dict, msg.members[k])

\* A walk that went into the component Legs from within Legs and returned.
NestedComponentWalked ==
    /\ DecodeCall
    /\ Cardinality({i \in 1..Len(call.log) : call.log[i].name = NameLegs}) >= 3

\* A group's loop that an iteration consuming nothing stopped.
GroupLoopStopped ==
    /\ DecodeCall
    /\ \E i \in 1..Len(call.log) :
          /\ call.log[i].consumed # <<>>
          /\ call.log[i].consumed[Len(call.log[i].consumed)] = 0

\* ------------------------------------------ properties of the loop of consume

\* The lengths of stream_buffer_ at the head of each pass of the loop of the
\* call of consume.
Passes == call.log.passes

\* C38: consume terminates on every input and every prior content of
\* stream_buffer_: every pass of its loop but the last leaves stream_buffer_
\* strictly shorter than it found it, so that the passes that go round again
\* are no more than the bytes the loop began with.
C38_ConsumeTerminates ==
    call.op = "consume" =>
        /\ ~call.log.spins
        /\ \A i \in 1..(Len(Passes) - 1) : Passes[i + 1] < Passes[i]
        /\ Len(Passes) - 1 <= Passes[1]

\* A call of consume whose loop dropped a bad trailer candidate and removed
\* a frame it emitted.
C38_Witness ==
    /\ call.op = "consume"
    /\ ret # <<>>
    /\ Len(Passes) - 1 > Len(ret)

\* A call of consume on a buffer left by an earlier call.
ConsumeOnPriorContent ==
    /\ call.op = "consume"
    /\ call.pre.stream_buffer_ # <<>>
    /\ Len(Passes) >= 2

\* ------------------------------------------- properties of a session in sync

\* No onMessage has returned sequence_gap or sequence_too_low.
NoSequenceError ==
    OnMessageCall =>
        ret.events \notin {<<"sequence_gap">>, <<"sequence_too_low">>}

\* Nothing is in flight: no call waits for its messages to be sent and no
\* frame is on a wire.
NothingInFlight == Idle /\ \A id \in Ids : chan[id] = <<>>

\* With nothing in flight each side expects what its peer numbers next.
CountersAgree ==
    NothingInFlight =>
        \A id \in Ids :
            ctl[id].expected_incoming_seq_num_ =
                ctl[Peer(id)].next_outgoing_seq_num_

TooLowAfterReset ==
    /\ OnMessageCall
    /\ sent # <<>>
    /\ ret.events = <<"sequence_too_low">>

\* ------------------------------------------------ properties of a detected gap

\* The acceptor has answered a frame of the initiator with sequence_gap.
GapSeen == pending # <<>>

\* C40: once onMessage has returned sequence_gap for a frame of the peer,
\* every later frame the peer builds without resetting its counter,
\* SequenceResets included, is answered with sequence_gap and a fresh
\* ResendRequest with the same 7=E, and expected_incoming_seq_num_ never
\* changes; and a controller that receives a ResendRequest retransmits
\* nothing, it only emits the event "resend_request".
C40_GapNeverRepaired ==
    /\ GapSeen =>
          ctl["acceptor"].expected_incoming_seq_num_ = pending[1].expected
    /\ (GapSeen /\ OnMessageCall /\ call.self = "acceptor") =>
          /\ ret.disposition = "kOutOfSync"
          /\ ret.events = <<"sequence_gap">>
          /\ Len(ret.outbound_messages) = 1
          /\ TagOf(ret.outbound_messages[1], 35) = MsgResendReq
          /\ TagOf(ret.outbound_messages[1], 7) = toString(pending[1].expected)
          /\ TagOf(ret.outbound_messages[1], 16) = <<Ch0>>
          /\ TagOf(ret.outbound_messages[1], 34) =
                 toString(Pre.next_outgoing_seq_num_)
    /\ (OnMessageCall /\ call.self = "initiator" /\ ArgMsgType = MsgResendReq) =>
          /\ ret.disposition = "kAccepted"
          /\ ret.events = <<"resend_request">>
          /\ ret.outbound_messages = <<>>
          /\ Post.next_outgoing_seq_num_ = Pre.next_outgoing_seq_num_

\* A SequenceReset numbered above the frame that opened the gap has been
\* answered with sequence_gap, and the ResendRequest of the first gap has
\* reached the initiator.
C40_Witness ==
    /\ GapSeen
    /\ OnMessageCall /\ call.self = "acceptor"
    /\ ArgMsgType = MsgSeqReset
    /\ U32Lt(pending[1].seq, ArgSeqNum)
    /\ ctl["initiator"].expected_incoming_seq_num_ = U32(3)

\* The initiator has received a ResendRequest.
ResendRequestReceived ==
    /\ OnMessageCall /\ call.self = "initiator"
    /\ ArgMsgType = MsgResendReq

====
